---- MODULE Spec2Model ----
(***************************************************************************)
(* A model of sunnyportal-py: the Client facade (client.py), the request   *)
(* builders (requests.py) and the response decoders (responses.py).        *)
(*                                                                         *)
(* Python values that may be None are modelled as sequences of length at   *)
(* most one: None is <<>> and a value v is <<v>>.  An XML element is a     *)
(* record [tag, text, attrs, kids] as xml.etree.ElementTree presents it.   *)
(* A call either returns (Ok) or raises (Raise); Try(r, K) continues with  *)
(* K on the value r returned and passes on the exception r raised.         *)
(***************************************************************************)
EXTENDS Integers, Sequences, FiniteSets, TLC

VARIABLES
    token,               \* Client.token: None or the AuthenticationResponse stored by get_token
    clock,               \* datetime.now(), in ticks
    prepare_url_params,  \* the dict object that is the default of prepare_url(segments, params={})
    DataRequest_params,  \* the dict object that is the default of DataRequest.__init__(..., params={})
    call,                \* the last facade call: its name, the token before it, the exchanges, the outcome
    data,                \* the input handed to a decoder (decoder specification)
    decoded,             \* what the decoder made of data (decoder specification)
    threads,             \* where each thread stands in Client.get_token, and its local value
    mutex,               \* the caller's guard around get_token: whether there is one, and its holder
    sent                 \* the authentication requests the threads have sent, with their outcome

threading == <<threads, mutex, sent>>
vars == <<token, clock, prepare_url_params, DataRequest_params, call, data, decoded, threading>>

-----------------------------------------------------------------------------
(* Bounds of the model *)

MaxClock == 2
TicksPerSecond == 2
MaxEntries == 2
MaxServices == 2
MaxDecimal == 12345
MaxThreads == 2

-----------------------------------------------------------------------------
(* Python values *)

None == <<>>
Some(v) == <<v>>

Ok(v) == [exc |-> "", val |-> v]
Raise(kind, msg, code) == [exc |-> kind, msg |-> msg, code |-> code]
Raised(r) == r.exc # ""

Try(r, K(_)) == IF Raised(r) THEN r ELSE K(r.val)
With(v, K(_)) == K(v)

EmptyDict == <<>>
DictSet(d, k, v) == [x \in (DOMAIN d) \cup {k} |-> IF x = k THEN v ELSE d[x]]

upper(s) ==
    CASE s = "get" -> "GET"
      [] s = "delete" -> "DELETE"
      [] s = "Delete" -> "DELETE"
      [] OTHER -> s

lower(s) ==
    CASE s = "GET" -> "get"
      [] s = "DELETE" -> "delete"
      [] s = "Delete" -> "delete"
      [] s = "ABC" -> "abc"
      [] s = "Id-2" -> "id-2"
      [] OTHER -> s

\* datetime.strptime(s, fmt): a date string is [fmt, v], a text that parses
\* under the format fmt, and under no other, to the value v.
strptime(s, fmt) ==
    IF s.fmt = fmt THEN Ok(s.v) ELSE Raise("ValueError", "does not match format", None)

\* strftime("%Y-%m-%dT%H:%M:%S"): seconds precision, the fraction is dropped.
strftime(t) == [iso |-> t \div TicksPerSecond]

-----------------------------------------------------------------------------
(* xml.etree.ElementTree *)

Elem(tag, text, attrs, kids) == [tag |-> tag, text |-> text, attrs |-> attrs, kids |-> kids]

get(element, attribute) ==
    IF attribute \in DOMAIN element.attrs THEN Some(element.attrs[attribute]) ELSE None

\* One step of an ElementPath: the children with the tag ("*" for any), which
\* carry the attribute when the step is tag[@attribute].
Step(tag) == [tag |-> tag, has |-> None]
StepWith(tag, attribute) == [tag |-> tag, has |-> Some(attribute)]

StepMatches(k, step) ==
    /\ step.tag = "*" \/ k.tag = step.tag
    /\ step.has = None \/ step.has[1] \in DOMAIN k.attrs

RECURSIVE Concat(_)
Concat(seqs) == IF seqs = <<>> THEN <<>> ELSE Head(seqs) \o Concat(Tail(seqs))

RECURSIVE iterpath(_, _)
iterpath(elements, path) ==
    IF path = <<>> THEN elements
    ELSE iterpath(Concat([i \in 1..Len(elements) |->
                            SelectSeq(elements[i].kids, LAMBDA k: StepMatches(k, Head(path)))]),
                  Tail(path))

iterfind(element, path) == iterpath(<<element>>, path)

\* Element.find: the first match in document order, or None.
find(element, path) ==
    With(iterfind(element, path), LAMBDA matches :
    IF matches = <<>> THEN None ELSE Some(Head(matches)))

\* Element.findtext: None without a match, "" for a match without text.
findtext(element, tag) ==
    With(find(element, <<Step(tag)>>), LAMBDA child :
    IF child = None THEN None
    ELSE IF child[1].text = None THEN Some("") ELSE child[1].text)

-----------------------------------------------------------------------------
(* responses.py: ResponseBase *)

find_or_raise(element, path, name) ==
    With(find(element, path), LAMBDA child :
    IF child = None THEN Raise("MalformedResponseError", <<"Missing tag", name>>, None)
    ELSE Ok(child[1]))

get_or_raise(element, attribute) ==
    IF attribute \in DOMAIN element.attrs THEN Ok(element.attrs[attribute])
    ELSE Raise("MalformedResponseError", <<"Missing attribute", attribute, element.tag>>, None)

\* raise ResponseError(msg, error.findtext("code")) with msg the text of
\* <message>, or "Invalid response error" when there is none.
ResponseError(msg, code) ==
    Raise("ResponseError",
          IF msg = None \/ msg = Some("") THEN "Invalid response error" ELSE msg[1],
          code)
\* ResponseError_of had the constructor's code a default of "unknown-error".
ResponseError_of_unknown_error(error) ==
    ResponseError(findtext(error, "message"),
                  IF findtext(error, "code") = None THEN Some("unknown-error")
                  ELSE findtext(error, "code"))

ResponseError_of(error) == ResponseError(findtext(error, "message"), findtext(error, "code"))

\* service_of had parse refused a root with more than one service child.
service_of_exactly_one(root) ==
    IF Len(iterfind(root, <<Step("service")>>)) > 1
    THEN Raise("MalformedResponseError", <<"Several tags", "service">>, None)
    ELSE find_or_raise(root, <<Step("service")>>, "service")

\* The service element ResponseBase.parse works on.
service_of(root) == find_or_raise(root, <<Step("service")>>, "service")

\* ResponseBase_parse had it read creation-date and method before looking
\* for an error child.
ResponseBase_parse_attributes_first(text, name) ==
    IF text = None THEN Raise("ParseError", "not well-formed", None)
    ELSE IF text[1].tag # "sma.sunnyportal.services"
    THEN Raise("MalformedResponseError", "Unknown root tag", None)
    ELSE Try(service_of(text[1]), LAMBDA service :
         Try(get_or_raise(service, "creation-date"), LAMBDA creation_date :
         Try(get_or_raise(service, "method"), LAMBDA method :
         With(find(service, <<Step("error")>>), LAMBDA error :
         IF error # None THEN ResponseError_of(error[1])
         ELSE Try(IF name = None THEN get_or_raise(service, "name") ELSE Ok(name[1]),
                  LAMBDA nm :
              Try(find_or_raise(service, <<Step(nm)>>, nm), LAMBDA tag :
              Ok([tag |-> tag, creation_date |-> creation_date,
                  method |-> upper(method)])))))))

\* ResponseBase.parse(data, name): text is None when the data is not XML.
\* Returns the payload element with the creation_date and method it stored.
ResponseBase_parse(text, name) ==
    IF text = None THEN Raise("ParseError", "not well-formed", None)
    ELSE IF text[1].tag # "sma.sunnyportal.services"
    THEN Raise("MalformedResponseError", "Unknown root tag", None)
    ELSE Try(service_of(text[1]), LAMBDA service :
         With(find(service, <<Step("error")>>), LAMBDA error :
         IF error # None THEN ResponseError_of(error[1])
         ELSE Try(get_or_raise(service, "creation-date"), LAMBDA creation_date :
              Try(get_or_raise(service, "method"), LAMBDA method :
              Try(IF name = None THEN get_or_raise(service, "name") ELSE Ok(name[1]),
                  LAMBDA nm :
              Try(find_or_raise(service, <<Step(nm)>>, nm), LAMBDA tag :
              Ok([tag |-> tag, creation_date |-> creation_date,
                  method |-> upper(method)])))))))

get_creation_date(creation_date) ==
    Try(strptime(creation_date, "%m/%d/%Y %I:%M:%S %p"), LAMBDA d : Ok(d * TicksPerSecond))

\* AuthenticationResponse.parse: the object it leaves behind; the key
\* attribute stays unset (None) when the response's method is DELETE.
AuthenticationResponse_parse(text, now) ==
    Try(ResponseBase_parse(text, None), LAMBDA base :
    IF base.tag.text # Some("OK") THEN Raise("ResponseError", "Authentication failed", None)
    ELSE Try(get_creation_date(base.creation_date), LAMBDA created :
         Try(get_or_raise(base.tag, "identifier"), LAMBDA identifier :
         Try(IF base.method # "DELETE"
             THEN Try(get_or_raise(base.tag, "key"), LAMBDA k : Ok(Some(k)))
             ELSE Ok(None),
             LAMBDA key :
         Ok([cls |-> "AuthenticationResponse",
             creation_date |-> base.creation_date,
             method |-> base.method,
             server_offset |-> now - created,
             identifier |-> identifier,
             key |-> key])))))

RECURSIVE PlantList_plants(_)
PlantList_plants(ps) ==
    IF ps = <<>> THEN Ok(<<>>)
    ELSE Try(get_or_raise(Head(ps), "oid"), LAMBDA oid :
         Try(get_or_raise(Head(ps), "name"), LAMBDA name :
         Try(PlantList_plants(Tail(ps)), LAMBDA rest :
         Ok(<<[oid |-> oid, name |-> name]>> \o rest))))

PlantListResponse_parse(text) ==
    Try(ResponseBase_parse(text, None), LAMBDA base :
    Try(PlantList_plants(iterfind(base.tag, <<Step("plant")>>)), LAMBDA plants :
    Ok([cls |-> "PlantListResponse",
        creation_date |-> base.creation_date,
        method |-> base.method,
        plants |-> plants])))

-----------------------------------------------------------------------------
(* responses.py: the data decoders *)

\* A decimal text is [dec |-> n], the number n / Scale; any other text is
\* [text |-> s], which float() rejects.
Scale == 10 * 10 * 10 * 10

\* Python's float is an IEEE 754 double: a sign, a significand of
\* MantissaBits bits and a binary exponent, of value sign * M * 2^exp.  The
\* significand M is held as four limbs of LimbBits bits, most significant
\* first; zero has an all-zero significand.
MantissaBits == 53
LimbBits == 15
Limb == 2 ^ LimbBits

Double(sign, limbs, exp) == [sign |-> sign, limbs |-> limbs, exp |-> exp]

\* The number of binary digits of a natural number.
bit_length(k) == CHOOSE L \in 0 .. 30 : k < 2 ^ L /\ (L = 0 \/ k >= 2 ^ (L - 1))

\* The limbs of a natural number below 2^31.
limbs_of(a) == <<a \div (Limb * Limb), (a \div Limb) % Limb, a % Limb>>

\* The natural number a short run of limbs spells.
RECURSIVE int_of(_)
int_of(limbs) ==
    IF limbs = <<>> THEN 0
    ELSE int_of(SubSeq(limbs, 1, Len(limbs) - 1)) * Limb + limbs[Len(limbs)]

\* limbs * 2^s.
shift_left(limbs, s) ==
    [i \in 1 .. Len(limbs) + 1 |->
        (IF i = 1 THEN 0 ELSE (limbs[i - 1] * 2 ^ (s % LimbBits)) % Limb)
      + (IF i > Len(limbs) THEN 0 ELSE (limbs[i] * 2 ^ (s % LimbBits)) \div Limb)]
    \o [i \in 1 .. s \div LimbBits |-> 0]

\* limbs \div 2^d for d <= LimbBits, without the lowest limb's place.
shift_right(limbs, d) ==
    [i \in 1 .. Len(limbs) - 1 |->
        (limbs[i] % 2 ^ d) * 2 ^ (LimbBits - d) + limbs[i + 1] \div 2 ^ d]

\* Long division of limbs by a small natural number.
RECURSIVE divmod(_, _)
divmod(limbs, d) ==
    IF limbs = <<>> THEN [quot |-> <<>>, rem |-> 0]
    ELSE With(divmod(SubSeq(limbs, 1, Len(limbs) - 1), d), LAMBDA h :
         [quot |-> Append(h.quot, (h.rem * Limb + limbs[Len(limbs)]) \div d),
          rem |-> (h.rem * Limb + limbs[Len(limbs)]) % d])

\* limbs * k + carry for a small natural number k, one limb longer.
RECURSIVE times(_, _, _)
times(limbs, k, carry) ==
    IF limbs = <<>> THEN <<carry>>
    ELSE Append(times(SubSeq(limbs, 1, Len(limbs) - 1), k,
                      (limbs[Len(limbs)] * k + carry) \div Limb),
                (limbs[Len(limbs)] * k + carry) % Limb)

\* limbs + 1.
RECURSIVE succ(_)
succ(limbs) ==
    IF limbs = <<>> THEN <<>>
    ELSE IF limbs[Len(limbs)] < Limb - 1
    THEN Append(SubSeq(limbs, 1, Len(limbs) - 1), limbs[Len(limbs)] + 1)
    ELSE Append(succ(SubSeq(limbs, 1, Len(limbs) - 1)), 0)

\* Round to nearest, ties to even: "twice" is twice the part dropped below
\* the significand and "ulp" the weight of the significand's last bit.
round_half_even(sign, limbs, exp, twice, ulp) ==
    IF twice > ulp \/ (twice = ulp /\ limbs[Len(limbs)] % 2 = 1)
    THEN IF limbs = <<2 ^ (MantissaBits - 3 * LimbBits) - 1, Limb - 1, Limb - 1, Limb - 1>>
         THEN Double(sign, <<2 ^ (MantissaBits - 3 * LimbBits - 1), 0, 0, 0>>, exp + 1)
         ELSE Double(sign, succ(limbs), exp)
    ELSE Double(sign, limbs, exp)

\* The double nearest to a / Scale for a natural number a > 0: the quotient
\* of a * 2^s by Scale with s chosen to fill the significand.
nearest(sign, a, s) ==
    With(divmod(shift_left(limbs_of(a), s), Scale), LAMBDA q :
    round_half_even(sign, SubSeq(q.quot, Len(q.quot) - 3, Len(q.quot)), -s,
                    2 * q.rem, Scale))

\* The s of nearest: a / Scale lies in [2^(L-1), 2^L) and s = MantissaBits - L.
scaling(a) ==
    IF a >= Scale THEN MantissaBits - bit_length(a \div Scale)
    ELSE MantissaBits - 1
         + CHOOSE z \in 1 .. LimbBits : a * 2 ^ z >= Scale /\ a * 2 ^ (z - 1) < Scale

\* float(s): the double nearest to the decimal the string spells; ValueError
\* for a string that spells no number.
float(s) ==
    IF "dec" \notin DOMAIN s THEN Raise("ValueError", "could not convert", None)
    ELSE IF s.dec = 0 THEN Ok(Double(1, <<0, 0, 0, 0>>, 0))
    ELSE IF s.dec < 0 THEN Ok(nearest(-1, -s.dec, scaling(-s.dec)))
    ELSE Ok(nearest(1, s.dec, scaling(s.dec)))

\* f * k for a double f and a small natural number k: the exact product
\* rounded to a double.
mul(f, k) ==
    With(times(f.limbs, k, 0), LAMBDA p :
    With((IF p[1] > 0 THEN bit_length(p[1]) + LimbBits ELSE bit_length(p[2]))
           + (Len(p) - 2) * LimbBits - MantissaBits, LAMBDA d :
    IF f.limbs[1] = 0 THEN f
    ELSE round_half_even(f.sign, shift_right(p, d), f.exp + d,
                         2 * (p[Len(p)] % 2 ^ d), 2 ^ d)))

\* int had it rounded to the nearest integer.
int_nearest(f) ==
    IF f.exp >= 0 THEN f.sign * int_of(f.limbs) * 2 ^ f.exp
    ELSE IF (-f.exp - 1) \div LimbBits >= Len(f.limbs) THEN 0
    ELSE With(SubSeq(f.limbs, 1, Len(f.limbs) - (-f.exp - 1) \div LimbBits), LAMBDA kept :
         f.sign * ((int_of(SubSeq(kept, 1, Len(kept) - 1)) * 2 ^ (LimbBits - ((-f.exp - 1) % LimbBits))
                    + kept[Len(kept)] \div 2 ^ ((-f.exp - 1) % LimbBits) + 1) \div 2))

\* int(f) of a double f: truncation toward zero.
int(f) ==
    IF f.exp >= 0 THEN f.sign * int_of(f.limbs) * 2 ^ f.exp
    ELSE IF (-f.exp) \div LimbBits >= Len(f.limbs) THEN 0
    ELSE With(SubSeq(f.limbs, 1, Len(f.limbs) - (-f.exp) \div LimbBits), LAMBDA kept :
         f.sign * (int_of(SubSeq(kept, 1, Len(kept) - 1)) * 2 ^ (LimbBits - ((-f.exp) % LimbBits))
                   + kept[Len(kept)] \div 2 ^ ((-f.exp) % LimbBits)))

\* ResponseBase.kwh_to_wh: int(float(kwh) * 1000), None for None.
kwh_to_wh(kwh) ==
    IF kwh = None THEN Ok(None)
    ELSE Try(float(kwh[1]), LAMBDA f : Ok(Some(int(mul(f, 1000)))))

\* The converter of an energy balance whose unit is not kWh: int(float(wh)).
wh_to_wh(wh) ==
    IF wh = None THEN Ok(None)
    ELSE Try(float(wh[1]), LAMBDA f : Ok(Some(int(f))))

parse_timestamp(tag, ts_format) ==
    Try(get_or_raise(tag, "timestamp"), LAMBDA ts : strptime(ts, ts_format))

parse_abs_diff(tag) ==
    Try(kwh_to_wh(get(tag, "absolute")), LAMBDA absolute :
    Try(kwh_to_wh(get(tag, "difference")), LAMBDA difference :
    Ok([absolute |-> absolute, difference |-> difference])))

Yield(timestamp, absolute, difference) ==
    [timestamp |-> timestamp, absolute |-> absolute, difference |-> difference]
Power(timestamp, power, pmin, pmax) ==
    [timestamp |-> timestamp, power |-> power, min |-> pmin, max |-> pmax]
combine(date, time) == [date |-> date, time |-> time]

\* both_not_None had the test been "or".
either_not_None(absolute, difference) == absolute # None \/ difference # None

\* "if absolute is not None and difference is not None"
both_not_None(absolute, difference) == absolute # None /\ difference # None

\* The loop "for entry in ...: (absolute, difference) = parse_abs_diff(entry);
\* if both are not None: append Yield(parse_timestamp(entry, fmt), ...)".
RECURSIVE YieldEntries(_, _)
YieldEntries(entries, ts_format) ==
    IF entries = <<>> THEN Ok(<<>>)
    ELSE Try(parse_abs_diff(Head(entries)), LAMBDA ad :
         Try(IF both_not_None(ad.absolute, ad.difference)
             THEN Try(parse_timestamp(Head(entries), ts_format), LAMBDA date :
                      Ok(<<Yield(date, ad.absolute, ad.difference)>>))
             ELSE Ok(<<>>),
             LAMBDA appended :
         Try(YieldEntries(Tail(entries), ts_format), LAMBDA rest :
         Ok(appended \o rest))))

\* The day part of LastDataExactResponse.parse: self.day, None or a Yield.
LastDataExact_day(day) ==
    Try(parse_abs_diff(day), LAMBDA ad :
    IF both_not_None(ad.absolute, ad.difference)
    THEN Try(parse_timestamp(day, "%d/%m/%Y"), LAMBDA date :
             Ok(Some(Yield(date, ad.absolute, ad.difference))))
    ELSE Ok(None))

\* The hour part: self.hour; it reads self.day.timestamp, which self.day, when
\* it is None, does not have.
LastDataExact_hour(hour, self_day) ==
    Try(parse_abs_diff(hour), LAMBDA ad :
    IF both_not_None(ad.absolute, ad.difference)
    THEN Try(parse_timestamp(hour, "%H:%M"), LAMBDA time :
             IF self_day = None
             THEN Raise("AttributeError", "'NoneType' object has no attribute 'timestamp'",
                        None)
             ELSE Ok(Some(Yield(combine(self_day[1].timestamp, time),
                                ad.absolute, ad.difference))))
    ELSE Ok(None))

LastDataExactResponse_parse(text) ==
    Try(ResponseBase_parse(text, None), LAMBDA base :
    Try(find_or_raise(base.tag, <<Step("Energy"), Step("channel")>>, "./Energy/channel"),
        LAMBDA tag :
    Try(find_or_raise(tag, <<Step("day")>>, "day"), LAMBDA day :
    Try(LastDataExact_day(day), LAMBDA self_day :
    Try(find_or_raise(tag, <<Step("hour")>>, "hour"), LAMBDA hour :
    Try(LastDataExact_hour(hour, self_day), LAMBDA self_hour :
    Ok([cls |-> "LastDataExactResponse", day |-> self_day, hour |-> self_hour])))))))

\* fmt of AllDataResponse.parse: ("month", "%m/%Y") when the tag has a month
\* child, ("year", "%Y") otherwise.
AllData_fmt(tag) ==
    IF find(tag, <<Step("month")>>) # None THEN <<"month", "%m/%Y">> ELSE <<"year", "%Y">>

AllDataResponse_parse(text) ==
    Try(ResponseBase_parse(text, None), LAMBDA base :
    Try(find_or_raise(base.tag, <<Step("Energy"), Step("channel"), Step("infinite")>>,
                      "./Energy/channel/infinite"),
        LAMBDA tag :
    Try(parse_timestamp(tag, "%d/%m/%Y %H:%M"), LAMBDA start_timestamp :
    With(AllData_fmt(tag), LAMBDA fmt :
    Try(YieldEntries(iterfind(tag, <<Step(fmt[1])>>), fmt[2]), LAMBDA energy :
    Ok([cls |-> "AllDataResponse",
        start_timestamp |-> start_timestamp,
        attr |-> IF fmt[1] = "month" THEN "months" ELSE "years",
        list |-> energy]))))))

\* OverviewResponse.parse_abs_diff_date: absolute, difference and date.
parse_abs_diff_date(tag, period, date_format) ==
    With(find(tag, <<Step("channel"), StepWith(period, "absolute")>>), LAMBDA summary :
    IF summary # None
    THEN Try(parse_abs_diff(summary[1]), LAMBDA ad :
         Try(parse_timestamp(summary[1], date_format), LAMBDA date :
         Ok([absolute |-> ad.absolute, difference |-> ad.difference, date |-> date])))
    ELSE Try(find_or_raise(tag, <<Step("channel"), Step(period)>>, period), LAMBDA plain :
         Try(parse_timestamp(plain, date_format), LAMBDA date :
         Ok([absolute |-> None, difference |-> None, date |-> date]))))

\* One turn of the loop of DayOverviewResponse.parse: what it appends.
Power_of(entry, include_all, date) ==
    Try(kwh_to_wh(get(entry, "mean")), LAMBDA mean :
    IF include_all \/ mean # None
    THEN Try(parse_timestamp(entry, "%H:%M"), LAMBDA time :
         Try(kwh_to_wh(get(entry, "min")), LAMBDA pmin :
         Try(kwh_to_wh(get(entry, "max")), LAMBDA pmax :
         Ok(<<Power(combine(date, time), mean, pmin, pmax)>>))))
    ELSE Ok(<<>>))

RECURSIVE PowerEntries(_, _, _)
PowerEntries(entries, include_all, date) ==
    IF entries = <<>> THEN Ok(<<>>)
    ELSE Try(Power_of(Head(entries), include_all, date), LAMBDA appended :
         Try(PowerEntries(Tail(entries), include_all, date), LAMBDA rest :
         Ok(appended \o rest)))

DayOverview_tag_type(quarter) ==
    IF quarter THEN "overview-day-fifteen-total" ELSE "overview-day-total"
DayOverview_tag_name(quarter) == IF quarter THEN "fiveteen" ELSE "hour"

DayOverviewResponse_parse(text, quarter, include_all) ==
    Try(ResponseBase_parse(text, None), LAMBDA base :
    Try(find_or_raise(base.tag, <<Step(DayOverview_tag_type(quarter))>>,
                      DayOverview_tag_type(quarter)),
        LAMBDA tag :
    Try(parse_abs_diff_date(tag, "day", "%d/%m/%Y"), LAMBDA sum :
    Try(PowerEntries(iterfind(tag, <<Step("channel"), Step("day"),
                                     Step(DayOverview_tag_name(quarter))>>),
                     include_all, sum.date),
        LAMBDA pm :
    Ok([cls |-> "DayOverviewResponse", quarter |-> quarter, include_all |-> include_all,
        date |-> sum.date, absolute |-> sum.absolute,
        difference |-> sum.difference, power_measurements |-> pm])))))

\* The parameters DayOverviewResponse.__init__ declares after self.
DayOverviewResponse_parameters == <<"data", "quarter", "include_all">>

\* DayOverviewResponse(*args): TypeError unless the arguments fit __init__.
DayOverviewResponse(args) ==
    IF Len(args) # Len(DayOverviewResponse_parameters)
    THEN Raise("TypeError", "missing required positional arguments", None)
    ELSE DayOverviewResponse_parse(args[1], args[2], args[3])

MonthOverviewResponse_parse(text) ==
    Try(ResponseBase_parse(text, None), LAMBDA base :
    Try(find_or_raise(base.tag, <<Step("overview-month-total")>>, "overview-month-total"),
        LAMBDA tag :
    Try(parse_abs_diff_date(tag, "month", "%m/%Y"), LAMBDA sum :
    Try(YieldEntries(iterfind(tag, <<Step("channel"), Step("month"), Step("day")>>),
                     "%d/%m/%Y"),
        LAMBDA days :
    Ok([cls |-> "MonthOverviewResponse",
        date |-> sum.date, absolute |-> sum.absolute,
        difference |-> sum.difference, attr |-> "days", list |-> days])))))

YearOverviewResponse_parse(text) ==
    Try(ResponseBase_parse(text, None), LAMBDA base :
    Try(find_or_raise(base.tag, <<Step("overview-year-total")>>, "overview-year-total"),
        LAMBDA tag :
    Try(parse_abs_diff_date(tag, "year", "%Y"), LAMBDA sum :
    Try(YieldEntries(iterfind(tag, <<Step("channel"), Step("year"), Step("month")>>),
                     "%m/%Y"),
        LAMBDA months :
    Ok([cls |-> "YearOverviewResponse",
        date |-> sum.date, absolute |-> sum.absolute,
        difference |-> sum.difference, attr |-> "months", list |-> months])))))

Consumption(external, internal, direct) ==
    [external |-> external, internal |-> internal, direct |-> direct]
Generation(total, self_consumption, feed_in) ==
    [total |-> total, self_consumption |-> self_consumption, feed_in |-> feed_in]
Battery(charge, discharge) == [charge |-> charge, discharge |-> discharge]
EnergyBalance(timestamp, consumption, generation, battery) ==
    [timestamp |-> timestamp, consumption |-> consumption, generation |-> generation,
     battery |-> battery]

\* The converter EnergyBalanceResponse.parse chose for the unit.
converter(unit, value) == IF unit = "kWh" THEN kwh_to_wh(value) ELSE wh_to_wh(value)

\* converter(entry.get(n)) for each n of names, in order, up to the first that raises.
RECURSIVE ConvertAll(_, _, _)
ConvertAll(entry, names, unit) ==
    IF names = <<>> THEN Ok(<<>>)
    ELSE Try(converter(unit, get(entry, Head(names))), LAMBDA v :
         Try(ConvertAll(entry, Tail(names), unit), LAMBDA rest :
         Ok(<<v>> \o rest)))

any_None(m) == \E i \in 1..Len(m) : m[i] = None
all_None(m) == \A i \in 1..Len(m) : m[i] = None

\* EnergyBalanceResponse.parse_entry: None or an EnergyBalance.
parse_entry(entry, timestamp, unit) ==
    Try(ConvertAll(entry, <<"external-supply", "self-supply", "direct-consumption">>, unit),
        LAMBDA c :
    IF any_None(c) THEN Ok(None)
    ELSE Try(ConvertAll(entry, <<"pv-generation", "self-consumption", "feed-in">>, unit),
             LAMBDA g :
    IF any_None(g) THEN Ok(None)
    ELSE Try(ConvertAll(entry, <<"battery-charging", "battery-discharging">>, unit),
             LAMBDA b :
    Ok(Some(EnergyBalance(timestamp,
                          Consumption(c[1], c[2], c[3]),
                          Generation(g[1], g[2], g[3]),
                          IF all_None(b) THEN None ELSE Some(Battery(b[1], b[2]))))))))

\* The loop "for entry in ...: date = parse_timestamp(entry, fmt);
\* b = parse_entry(entry, date, converter); if b is not None: append b".
RECURSIVE BalanceEntries(_, _, _)
BalanceEntries(entries, ts_format, unit) ==
    IF entries = <<>> THEN Ok(<<>>)
    ELSE Try(parse_timestamp(Head(entries), ts_format), LAMBDA date :
         Try(parse_entry(Head(entries), date, unit), LAMBDA b :
         Try(BalanceEntries(Tail(entries), ts_format, unit), LAMBDA rest :
         Ok(b \o rest))))

EnergyBalance_result(attr, list) ==
    Try(list, LAMBDA l : Ok([cls |-> "EnergyBalanceResponse", attr |-> attr, list |-> l]))

EnergyBalance_entries(tag, unit) ==
    IF find(tag, <<Step("*"), Step("month")>>) # None
    THEN EnergyBalance_result("months",
             BalanceEntries(iterfind(tag, <<Step("*"), Step("month")>>), "%m/%Y", unit))
    ELSE IF find(tag, <<Step("*"), Step("day")>>) # None
    THEN EnergyBalance_result("days",
             BalanceEntries(iterfind(tag, <<Step("*"), Step("day")>>), "%d/%m/%Y", unit))
    ELSE IF find(tag, <<Step("day")>>) # None
    THEN EnergyBalance_result("day",
             BalanceEntries(find(tag, <<Step("day")>>), "%d/%m/%Y", unit))
    ELSE Raise("NotImplementedError", "unsupported response", None)

EnergyBalanceResponse_parse(text) ==
    Try(ResponseBase_parse(text, None), LAMBDA base :
    Try(find_or_raise(base.tag, <<Step("energybalance")>>, "energybalance"), LAMBDA tag :
    IF get(tag, "unit") # Some("kWh") /\ get(tag, "unit") # Some("Wh")
    THEN Raise("AssertionError", "", None)
    ELSE EnergyBalance_entries(tag, get(tag, "unit")[1])))

-----------------------------------------------------------------------------
(* requests.py *)

version == 100
OK == 200

str(n) == IF n = 100 THEN "100" ELSE "?"
quote(s) == [quoted |-> s]
urlencode(params) ==
    [k \in DOMAIN params |->
        IF k = "signature-version" THEN [quoted |-> str(params[k])] ELSE [quoted |-> params[k]]]

RequestBase(cls, service, tok, method) ==
    [cls |-> cls, service |-> service, token |-> tok, method |-> method,
     version |-> version, base_path |-> "/services", url |-> None]

get_timestamp(offset, now) == strftime(now - offset)

\* base64.standard_b64encode(hmac.new(key, sha1).update(...).digest()): the
\* digest is determined by the key and the fields fed to it, in order.
hmac_sha1_b64(key, fields) == [b64 |-> [key |-> key, msg |-> fields]]

\* signs had prepare_url signed the GET requests only.
signs_GET(self) == self.token # None /\ self.method = "GET"

\* "if self.token is not None": the requests prepare_url signs.
signs(self) == self.token # None

\* The body of that "if": the four fields written into params, ts being the
\* timestamp get_timestamp returned.
sign(self, params, ts) ==
    DictSet(DictSet(DictSet(DictSet(params,
        "timestamp", ts),
        "signature-method", "auth"),
        "signature-version", self.version),
        "signature", hmac_sha1_b64(self.token[1].key[1],
                                   <<lower(self.method), lower(self.service), ts,
                                     lower(self.token[1].identifier)>>))

\* The rest of prepare_url: self.url from the segments and the params.
set_url(self, segments, params) ==
    [exc |-> "",
     req |-> [self EXCEPT !.url =
                 Some([base_path |-> self.base_path, service |-> self.service,
                       version |-> self.version,
                       segments |-> [i \in 1..Len(segments) |-> quote(segments[i])],
                       query |-> IF DOMAIN params # {} THEN Some(urlencode(params))
                                 ELSE None])],
     params |-> params]

\* RequestBase.prepare_url(segments, params): writes the signature fields into
\* params (the caller's dict object) and sets self.url.  Returns the request
\* and the dict as it leaves them; raises when the token has no key attribute.
prepare_url(self, segments, params, now) ==
    IF ~signs(self) THEN set_url(self, segments, params)
    ELSE IF self.token[1].key = None
    THEN [exc |-> "AttributeError", req |-> self, params |-> params]
    ELSE set_url(self, segments,
                 sign(self, params, get_timestamp(self.token[1].server_offset, now)))

\* A constructed request (or the exception of its constructor) with the two
\* default dict objects as the constructor leaves them.
Built(pu, dr, r) == [exc |-> r.exc, req |-> r.req, pu |-> pu, dr |-> dr]

\* The same when the constructor called prepare_url without params, so that
\* prepare_url wrote into its default dict object.
BuiltDefault(dr, r) == Built(r.params, dr, r)

AuthenticationRequest(username, password, pu, dr, now) ==
    Built(pu, dr,
          prepare_url(RequestBase("AuthenticationRequest", "authentication", None, "GET"),
                      <<username>>, DictSet(EmptyDict, "password", password), now))

LogoutRequest(tok, pu, dr, now) ==
    BuiltDefault(dr,
          prepare_url(RequestBase("LogoutRequest", "authentication", Some(tok), "DELETE"),
                      <<tok.identifier>>, pu, now))

PlantListRequest(tok, pu, dr, now) ==
    BuiltDefault(dr,
          prepare_url(RequestBase("PlantListRequest", "plantlist", Some(tok), "GET"),
                      <<tok.identifier>>, pu, now))

PlantRequest(cls, tok, oid, view, pu, dr, now) ==
    Built(pu, dr,
          prepare_url(RequestBase(cls, "plant", Some(tok), "GET"), <<oid>>,
                      DictSet(DictSet(DictSet(DictSet(EmptyDict,
                          "view", view),
                          "culture", "en-gb"),
                          "plant-image-size", "64px"),
                          "identifier", tok.identifier),
                      now))

PlantProfileRequest(tok, oid, pu, dr, now) ==
    PlantRequest("PlantProfileRequest", tok, oid, "profile", pu, dr, now)

strftime_ymd(date) == [ymd |-> date]

\* A constructed DataRequest: when the caller passed no params, params was the
\* default dict object of DataRequest.__init__, which keeps what was written.
BuiltData(shared, pu, dr, r) == Built(pu, IF shared THEN r.params ELSE dr, r)

\* DataRequest.__init__(token, oid, data_type, date, params): shared is TRUE
\* when the caller passed no params, so that params is the default dict object.
DataRequest(cls, tok, oid, data_type, date, params, shared, pu, dr, now) ==
    BuiltData(shared, pu, dr,
          prepare_url(RequestBase(cls, "data", Some(tok), "GET"),
                      <<oid, data_type, strftime_ymd(date)>>,
                      DictSet(DictSet(params, "culture", "en-gb"),
                              "identifier", tok.identifier),
                      now))

\* LastDataExactRequest had it written unit and view into DataRequest's
\* default dict object instead of a dict of its own.
LastDataExactRequest_default_params(tok, oid, date, pu, dr, now) ==
    DataRequest("LastDataExactRequest", tok, oid, "Energy", date,
                DictSet(DictSet(dr, "unit", "kWh"), "view", "lastdataexact"),
                TRUE, pu, dr, now)

LastDataExactRequest(tok, oid, date, pu, dr, now) ==
    DataRequest("LastDataExactRequest", tok, oid, "Energy", date,
                DictSet(DictSet(EmptyDict, "unit", "kWh"), "view", "lastdataexact"),
                FALSE, pu, dr, now)

today(now) == now \div TicksPerSecond

AllDataRequest(tok, oid, interval, pu, dr, now) ==
    DataRequest("AllDataRequest", tok, oid, "Energy", today(now),
                DictSet(DictSet(DictSet(EmptyDict, "period", "infinite"),
                                "interval", interval), "unit", "kWh"),
                FALSE, pu, dr, now)

\* The parameters DayOverviewRequest.__init__ declares after self.
DayOverviewRequest_parameters == <<"token", "oid", "date">>

\* DayOverviewRequest(*args): a call whose positional arguments do not fit the
\* declared parameters raises TypeError before the body runs.
DayOverviewRequest(args, pu, dr, now) ==
    IF Len(args) # Len(DayOverviewRequest_parameters)
    THEN [exc |-> "TypeError", req |-> None, pu |-> pu, dr |-> dr]
    ELSE DataRequest("DayOverviewRequest", args[1], args[2], "overview-day-fifteen-total",
                     args[3], dr, TRUE, pu, dr, now)

MonthOverviewRequest(tok, oid, date, pu, dr, now) ==
    DataRequest("MonthOverviewRequest", tok, oid, "overview-month-total", date,
                dr, TRUE, pu, dr, now)

YearOverviewRequest(tok, oid, date, pu, dr, now) ==
    DataRequest("YearOverviewRequest", tok, oid, "overview-year-total", date,
                dr, TRUE, pu, dr, now)

-----------------------------------------------------------------------------
(* requests.py: perform and handle_response *)

handle_response(req, text, now) ==
    CASE req.cls \in {"AuthenticationRequest", "LogoutRequest"} ->
             AuthenticationResponse_parse(text, now)
      [] req.cls = "PlantListRequest" -> PlantListResponse_parse(text)
      [] req.cls = "LastDataExactRequest" -> LastDataExactResponse_parse(text)
      [] req.cls = "AllDataRequest" -> AllDataResponse_parse(text)
      [] req.cls = "DayOverviewRequest" -> DayOverviewResponse(<<text>>)
      [] req.cls = "MonthOverviewRequest" -> MonthOverviewResponse_parse(text)
      [] req.cls = "YearOverviewRequest" -> YearOverviewResponse_parse(text)

\* status_OK had perform gone on with every 2xx status.
status_2xx(status) == status \div 100 = 2

\* "if response.status != http.OK: raise": the statuses perform goes on with.
status_OK(status) == status = OK

\* RequestBase.perform(connection): the request it put on the connection,
\* whether it read the response body, and what it returned or raised.
perform(req, response, now) ==
    [sent |-> <<[method |-> req.method, url |-> req.url[1], token |-> req.token]>>,
     read |-> status_OK(response.status),
     response |-> response,
     result |-> IF status_OK(response.status)
                THEN handle_response(req, response.body, now)
                ELSE Raise("RuntimeError",
                           <<"HTTP error performing", req.service,
                             response.status, response.reason>>, None)]

-----------------------------------------------------------------------------
(* client.py *)

username == "user"
password == "pass"

Client_do_request(request, response, now) == perform(request, response, now)

\* The outcome of a client method: the token field and the two default dict
\* objects after it, the exchanges made, and what it returned or raised.
Outcome(tok, pu, dr, exchanges, result) ==
    [token |-> tok, pu |-> pu, dr |-> dr, exchanges |-> exchanges, result |-> result]

\* "self.token = self.do_request(req)": no assignment when do_request raises.
get_token_token(tok, result) == IF Raised(result) THEN tok ELSE Some(result.val)

\* Client.get_token with the response the server gives should it be asked.
Client_get_token(tok, pu, dr, response, now) ==
    IF tok = None
    THEN With(AuthenticationRequest(username, password, pu, dr, now), LAMBDA b :
         With(Client_do_request(b.req, response, now), LAMBDA x :
         Outcome(get_token_token(tok, x.result), b.pu, b.dr, <<x>>, x.result)))
    ELSE Outcome(tok, pu, dr, <<>>, Ok(tok[1]))

\* The request a facade method constructs from the token get_token returned.
FacadeRequest(op, args, tok, pu, dr, now) ==
    CASE op = "get_plants" -> PlantListRequest(tok, pu, dr, now)
      [] op = "last_data_exact" -> LastDataExactRequest(tok, args.oid, args.date, pu, dr, now)
      [] op = "all_data" -> AllDataRequest(tok, args.oid, args.interval, pu, dr, now)
      [] op = "day_overview" ->
             DayOverviewRequest(<<tok, args.oid, args.date, args.quarter, args.include_all>>,
                                pu, dr, now)
      [] op = "month_overview" -> MonthOverviewRequest(tok, args.oid, args.date, pu, dr, now)
      [] op = "year_overview" -> YearOverviewRequest(tok, args.oid, args.date, pu, dr, now)

\* What the facade method returns from the decoded response.
FacadeReturn(op, res) ==
    IF op = "get_plants"
    THEN [i \in 1..Len(res.plants) |-> [cls |-> "Plant", oid |-> res.plants[i].oid,
                                         name |-> res.plants[i].name]]
    ELSE res

\* A facade data method: req = XRequest(self.get_token(), ...);
\* return self.client.do_request(req).
FacadeCall(op, args, tok, pu, dr, authResponse, dataResponse, now1, now2) ==
    With(Client_get_token(tok, pu, dr, authResponse, now1), LAMBDA t :
    IF Raised(t.result) THEN t
    ELSE With(FacadeRequest(op, args, t.result.val, t.pu, t.dr, now2), LAMBDA b :
    IF b.exc # ""
    THEN Outcome(t.token, b.pu, b.dr, t.exchanges, Raise(b.exc, "request construction", None))
    ELSE With(Client_do_request(b.req, dataResponse, now2), LAMBDA x :
         Outcome(t.token, b.pu, b.dr, t.exchanges \o <<x>>,
                 Try(x.result, LAMBDA res : Ok(FacadeReturn(op, res)))))))

\* logout_token had logout cleared the token before sending the request.
logout_token_cleared_first(tok, result) == None

\* "self.do_request(req); self.token = None": the token field after the two
\* statements, the second of which is not reached when the first raises.
logout_token(tok, result) == IF Raised(result) THEN tok ELSE None

\* Client.logout
Client_logout(tok, pu, dr, response, now) ==
    IF tok = None THEN Outcome(tok, pu, dr, <<>>, Ok(None))
    ELSE With(Client_get_token(tok, pu, dr, response, now), LAMBDA t :
         With(LogoutRequest(t.result.val, t.pu, t.dr, now), LAMBDA b :
         IF b.exc # ""
         THEN Outcome(t.token, b.pu, b.dr, <<>>, Raise(b.exc, "request construction", None))
         ELSE With(Client_do_request(b.req, response, now), LAMBDA x :
              Outcome(logout_token(t.token, x.result), b.pu, b.dr, <<x>>,
                      Try(x.result, LAMBDA res : Ok(None))))))

-----------------------------------------------------------------------------
(* The portal: the response texts the inputs are drawn from *)

Opt(k, v) == IF v = None THEN <<>> ELSE (k :> v[1])

Root(services) == Some(Elem("sma.sunnyportal.services", None, <<>>, services))
Service(name, method, created, kids) ==
    Elem("service", None,
         Opt("name", name) @@ Opt("method", method) @@ Opt("creation-date", created), kids)
CreationDate(seconds) == [fmt |-> "%m/%d/%Y %I:%M:%S %p", v |-> seconds]
Date(fmt, v) == [fmt |-> fmt, v |-> v]
Dec(n) == [dec |-> n]

\* <error> with its optional <message> and <code> children; a child is absent
\* (None), present without text (Some(None)) or present with a text.
ErrorElem(message, code) ==
    Elem("error", None, <<>>,
         (IF code = None THEN <<>> ELSE <<Elem("code", code[1], <<>>, <<>>)>>)
         \o (IF message = None THEN <<>> ELSE <<Elem("message", message[1], <<>>, <<>>)>>))

AuthPayload(text, identifier, key) ==
    Elem("authentication", text, Opt("identifier", identifier) @@ Opt("key", key), <<>>)

AuthBody(method, text, identifier, key, seconds) ==
    Root(<<Service(Some("authentication"), Some(method), Some(CreationDate(seconds)),
                   <<AuthPayload(Some(text), identifier, key)>>)>>)

ErrorBody(service, method, code, message) ==
    Root(<<Service(Some(service), Some(method), Some(CreationDate(0)),
                   <<ErrorElem(Some(Some(message)), Some(Some(code)))>>)>>)

Plant(oid, name) == Elem("plant", None, ("oid" :> oid) @@ ("name" :> name), <<>>)
PlantListBody(plants) ==
    Root(<<Service(Some("plantlist"), Some("GET"), Some(CreationDate(0)),
                   <<Elem("plantlist", None, <<>>, plants)>>)>>)

DataBody(kids) ==
    Root(<<Service(Some("data"), Some("GET"), Some(CreationDate(0)),
                   <<Elem("data", None, <<>>, kids)>>)>>)

\* An element carrying timestamp, absolute and difference where given.
YieldElem(tag, ts, absolute, difference, kids) ==
    Elem(tag, None,
         Opt("timestamp", ts) @@ Opt("absolute", absolute) @@ Opt("difference", difference),
         kids)

Channel(kids) == Elem("channel", None, <<>>, kids)

LastDataExactBody(day, hour) ==
    DataBody(<<Elem("Energy", None, <<>>, <<Channel(<<day, hour>>)>>)>>)

AllDataBody(ts, entries) ==
    DataBody(<<Elem("Energy", None, <<>>,
                    <<Channel(<<Elem("infinite", None, Opt("timestamp", ts), entries)>>)>>)>>)

OverviewBody(root, summary) == DataBody(<<Elem(root, None, <<>>, <<Channel(<<summary>>)>>)>>)

PowerElem(tag, ts, mean, pmin, pmax) ==
    Elem(tag, None,
         Opt("timestamp", ts) @@ Opt("mean", mean) @@ Opt("min", pmin) @@ Opt("max", pmax),
         <<>>)

Http(status, reason, body) == [status |-> status, reason |-> reason, body |-> body]

Identifiers == {"abc", "Id-2"}
Keys == {"secret"}
CreationSeconds == {0}
Oids == {"plant-1"}

\* The answer of an exchange that does not take place.
NoResponse == Http(0, "", None)

\* What the portal may answer to the login request.
LoginResponses ==
    {Http(200, "OK", AuthBody("GET", "OK", Some(i), Some(k), c)) :
        i \in Identifiers, k \in Keys, c \in CreationSeconds}
    \cup {Http(200, "OK", AuthBody("DELETE", "OK", Some("abc"), None, 0)),
          Http(200, "OK", AuthBody("GET", "OK", Some("abc"), None, 0)),
          Http(200, "OK", AuthBody("GET", "FAIL", Some("abc"), Some("secret"), 0)),
          Http(200, "OK", ErrorBody("authentication", "GET", "401", "Invalid credentials")),
          Http(200, "OK", Root(<<>>)),
          Http(200, "OK", None),
          Http(201, "Created", AuthBody("GET", "OK", Some("abc"), Some("secret"), 0)),
          Http(500, "Internal Server Error", None)}

\* What the portal may answer to the logout request.
LogoutResponses ==
    {Http(200, "OK", AuthBody("DELETE", "OK", Some("abc"), None, 0)),
     Http(200, "OK", AuthBody("DELETE", "FAIL", Some("abc"), None, 0)),
     Http(200, "OK", ErrorBody("authentication", "DELETE", "401", "Invalid session")),
     Http(204, "No Content", None),
     Http(500, "Internal Server Error", None)}

GoodBody(op) ==
    CASE op = "get_plants" -> PlantListBody(<<Plant("plant-1", "Roof"), Plant("plant-2", "Barn")>>)
      [] op = "last_data_exact" ->
             LastDataExactBody(
                 YieldElem("day", Some(Date("%d/%m/%Y", 1)), Some(Dec(12345)), Some(Dec(2345)), <<>>),
                 YieldElem("hour", Some(Date("%H:%M", 2)), Some(Dec(12345)), Some(Dec(345)), <<>>))
      [] op = "all_data" ->
             AllDataBody(Some(Date("%d/%m/%Y %H:%M", 0)),
                 <<YieldElem("year", Some(Date("%Y", 1)), Some(Dec(12345)), Some(Dec(2345)), <<>>),
                   YieldElem("year", Some(Date("%Y", 2)), None, None, <<>>)>>)
      [] op = "day_overview" ->
             OverviewBody("overview-day-fifteen-total",
                 YieldElem("day", Some(Date("%d/%m/%Y", 1)), Some(Dec(12345)), Some(Dec(2345)),
                     <<PowerElem("fiveteen", Some(Date("%H:%M", 1)), Some(Dec(5000)), None, None)>>))
      [] op = "month_overview" ->
             OverviewBody("overview-month-total",
                 YieldElem("month", Some(Date("%m/%Y", 1)), Some(Dec(12345)), Some(Dec(2345)),
                     <<YieldElem("day", Some(Date("%d/%m/%Y", 1)), Some(Dec(12345)), Some(Dec(345)), <<>>)>>))
      [] op = "year_overview" ->
             OverviewBody("overview-year-total",
                 YieldElem("year", Some(Date("%Y", 1)), Some(Dec(12345)), Some(Dec(2345)),
                     <<YieldElem("month", Some(Date("%m/%Y", 1)), Some(Dec(12345)), Some(Dec(345)), <<>>)>>))

\* What the portal may answer to the data request of a facade method.
DataResponses(op) ==
    {Http(200, "OK", GoodBody(op)),
     Http(200, "OK", ErrorBody(IF op = "get_plants" THEN "plantlist" ELSE "data", "GET",
                               "401", "Invalid session")),
     Http(200, "OK", Root(<<>>)),
     Http(500, "Internal Server Error", None)}

-----------------------------------------------------------------------------
(* The facade as a state machine: one action per facade method *)

NoArgs == [oid |-> "", date |-> 0, interval |-> "", quarter |-> FALSE, include_all |-> FALSE]
NoCall == [op |-> "", args |-> NoArgs, before |-> None, exchanges |-> <<>>, result |-> Ok(None)]

\* No guard around get_token.
NoMutex == [guarded |-> FALSE, holder |-> None]

\* No thread is inside get_token.
NoThreads == [t \in 1..MaxThreads |-> [pc |-> "done", local |-> None]]

Init ==
    /\ token = None
    /\ clock = 0
    /\ prepare_url_params = EmptyDict
    /\ DataRequest_params = EmptyDict
    /\ call = NoCall
    /\ data = None
    /\ decoded = None
    /\ threads = NoThreads
    /\ mutex = NoMutex
    /\ sent = <<>>

\* The call leaves r behind; the clock has advanced to now.
Leave(op, args, r, now) ==
    /\ token' = r.token
    /\ prepare_url_params' = r.pu
    /\ DataRequest_params' = r.dr
    /\ call' = [op |-> op, args |-> args, before |-> token, exchanges |-> r.exchanges,
                result |-> r.result]
    /\ clock' = now

\* A facade data method called while the clock reads `clock`: the login, when
\* there is one, is decoded d ticks before the data request is built.
Facade(op, args) ==
    \E d \in (IF token = None THEN 0..1 ELSE {0}) :
        /\ clock + d <= MaxClock
        /\ \E authResponse \in (IF token = None THEN LoginResponses ELSE {NoResponse}) :
              LET t == Client_get_token(token, prepare_url_params, DataRequest_params,
                                        authResponse, clock)
              IN \E dataResponse \in (IF Raised(t.result) THEN {NoResponse}
                                      ELSE DataResponses(op)) :
                    Leave(op, args,
                          FacadeCall(op, args, token, prepare_url_params, DataRequest_params,
                                     authResponse, dataResponse, clock, clock + d),
                          clock + d)

\* Client.get_plants
get_plants ==
    /\ Facade("get_plants", NoArgs)
    /\ UNCHANGED <<data, decoded, threading>>

\* Plant.last_data_exact
last_data_exact ==
    \E oid \in Oids :
        /\ Facade("last_data_exact", [NoArgs EXCEPT !.oid = oid])
        /\ UNCHANGED <<data, decoded, threading>>

\* Plant.all_data
all_data ==
    \E oid \in Oids, interval \in {"year", "month"} :
        /\ Facade("all_data", [NoArgs EXCEPT !.oid = oid, !.interval = interval])
        /\ UNCHANGED <<data, decoded, threading>>

\* Plant.day_overview
day_overview ==
    \E oid \in Oids, quarter \in BOOLEAN, include_all \in {FALSE} :
        /\ Facade("day_overview",
                  [NoArgs EXCEPT !.oid = oid, !.quarter = quarter,
                                 !.include_all = include_all])
        /\ UNCHANGED <<data, decoded, threading>>

\* Plant.month_overview
month_overview ==
    \E oid \in Oids :
        /\ Facade("month_overview", [NoArgs EXCEPT !.oid = oid])
        /\ UNCHANGED <<data, decoded, threading>>

\* Plant.year_overview
year_overview ==
    \E oid \in Oids :
        /\ Facade("year_overview", [NoArgs EXCEPT !.oid = oid])
        /\ UNCHANGED <<data, decoded, threading>>

\* Client.logout
logout ==
    \E response \in (IF token = None THEN {NoResponse} ELSE LogoutResponses) :
        /\ Leave("logout", NoArgs,
                 Client_logout(token, prepare_url_params, DataRequest_params, response,
                               clock),
                 clock)
        /\ UNCHANGED <<data, decoded, threading>>

\* Time passes between calls.
Tick ==
    /\ clock < MaxClock
    /\ clock' = clock + 1
    /\ UNCHANGED <<token, prepare_url_params, DataRequest_params, call, data, decoded, threading>>

Next ==
    \/ get_plants
    \/ last_data_exact
    \/ all_data
    \/ day_overview
    \/ month_overview
    \/ year_overview
    \/ logout
    \/ Tick

Spec == Init /\ [][Next]_vars

-----------------------------------------------------------------------------
(* The decoders on their own: a response text is drawn and decoded once *)


\* All sequences over S of length at most n.
RECURSIVE SeqsUpTo(_, _)
SeqsUpTo(S, n) ==
    IF n = 0 THEN {<<>>}
    ELSE LET shorter == SeqsUpTo(S, n - 1)
         IN shorter \cup {Append(q, x) : q \in {t \in shorter : Len(t) = n - 1}, x \in S}

\* <service> elements as the portal may send them, well-formed or not.
GoodAuthService ==
    Service(Some("authentication"), Some("GET"), Some(CreationDate(0)),
            <<AuthPayload(Some("OK"), Some("abc"), Some("secret"))>>)
GoodPlantListService ==
    Service(Some("plantlist"), Some("GET"), Some(CreationDate(0)),
            <<Elem("plantlist", None, <<>>, <<Plant("plant-1", "Roof")>>)>>)
ErrorTexts(t) == {None, Some(None), Some(Some(t))}
ErrorServices ==
    {Service(Some("authentication"), Some("GET"), Some(CreationDate(0)),
             <<ErrorElem(m, c), AuthPayload(Some("OK"), Some("abc"), Some("secret"))>>) :
        m \in ErrorTexts("Invalid session"), c \in ErrorTexts("401")}
    \cup {Service(None, None, None, <<ErrorElem(Some(Some("Invalid session")), Some(Some("401")))>>)}
BrokenServices ==
    {Service(None, Some("GET"), Some(CreationDate(0)),
             <<AuthPayload(Some("OK"), Some("abc"), Some("secret"))>>),
     Service(Some("authentication"), None, Some(CreationDate(0)),
             <<AuthPayload(Some("OK"), Some("abc"), Some("secret"))>>),
     Service(Some("authentication"), Some("GET"), None,
             <<AuthPayload(Some("OK"), Some("abc"), Some("secret"))>>),
     Service(Some("authentication"), Some("GET"), Some(CreationDate(0)), <<>>)}
\* Services whose payload no decoder accepts, with and without a method.
FailedPayloadServices ==
    {Service(Some("authentication"), method, Some(CreationDate(0)),
             <<AuthPayload(Some("FAIL"), None, None)>>) : method \in {None, Some("GET")}}
Services ==
    {GoodAuthService, GoodPlantListService} \cup ErrorServices \cup BrokenServices
    \cup FailedPayloadServices

EnvelopeTexts ==
    {None}
    \cup {Some(Elem(root, None, <<>>, services)) :
            root \in {"sma.sunnyportal.services", "wrong.root"},
            services \in SeqsUpTo(Services, MaxServices)}

\* Authentication payloads, for login (GET) and logout (DELETE) answers.
AuthenticationTexts ==
    {Root(<<Service(Some("authentication"), Some(method), Some(created),
                    <<AuthPayload(text, identifier, key)>>)>>) :
        method \in {"GET", "get", "DELETE", "Delete"},
        created \in {CreationDate(0), Date("%d/%m/%Y", 0)},
        text \in {None, Some("OK"), Some("FAIL")},
        identifier \in {None, Some("abc")},
        key \in {None, Some("secret")}}

\* An input of a decoder: the decoder, the text, the arguments of the
\* response's constructor, the clock, and, for the list decoders, the
\* descriptions the entries of the text were made from.
Input(decoder, text, entries) ==
    [decoder |-> decoder, text |-> text, now |-> 0, quarter |-> FALSE,
     include_all |-> FALSE, entries |-> entries]

\* Yield entries: entry i carries the timestamp i when it has one.
YieldKinds == [ts : BOOLEAN, absolute : BOOLEAN, difference : BOOLEAN]
YieldElems(tag, fmt, kinds) ==
    [i \in 1..Len(kinds) |->
        YieldElem(tag,
                  IF kinds[i].ts THEN Some(Date(fmt, i)) ELSE None,
                  IF kinds[i].absolute THEN Some(Dec(12345 + i)) ELSE None,
                  IF kinds[i].difference THEN Some(Dec(2345 + i)) ELSE None,
                  <<>>)]

YieldInputs ==
    UNION {{Input("AllData:year",
                  AllDataBody(Some(Date("%d/%m/%Y %H:%M", 0)), YieldElems("year", "%Y", k)), k),
            Input("AllData:month",
                  AllDataBody(Some(Date("%d/%m/%Y %H:%M", 0)), YieldElems("month", "%m/%Y", k)), k),
            Input("MonthOverview",
                  OverviewBody("overview-month-total",
                      YieldElem("month", Some(Date("%m/%Y", 0)), Some(Dec(12345)),
                                Some(Dec(2345)), YieldElems("day", "%d/%m/%Y", k))), k),
            Input("YearOverview",
                  OverviewBody("overview-year-total",
                      YieldElem("year", Some(Date("%Y", 0)), Some(Dec(12345)),
                                Some(Dec(2345)), YieldElems("month", "%m/%Y", k))), k)} :
           k \in SeqsUpTo(YieldKinds, MaxEntries)}

\* Energy balance entries: missing names the mandatory attribute left out
\* ("" for none), battery the number of battery attributes present.
BalanceFields == <<"external-supply", "self-supply", "direct-consumption",
                   "pv-generation", "self-consumption", "feed-in">>
BalanceKinds ==
    {[ts |-> TRUE, missing |-> BalanceFields[f], battery |-> 2] : f \in 1..6}
    \cup {[ts |-> TRUE, missing |-> "", battery |-> b] : b \in 0..2}
    \cup {[ts |-> FALSE, missing |-> "", battery |-> 0],
          [ts |-> FALSE, missing |-> "feed-in", battery |-> 0]}
BalanceElem(tag, fmt, kind, i) ==
    Elem(tag, None,
         [a \in ({BalanceFields[f] : f \in 1..6} \ {kind.missing})
                \cup (IF kind.ts THEN {"timestamp"} ELSE {})
                \cup (IF kind.battery >= 1 THEN {"battery-charging"} ELSE {})
                \cup (IF kind.battery >= 2 THEN {"battery-discharging"} ELSE {}) |->
             IF a = "timestamp" THEN Date(fmt, i) ELSE Dec(12345 + i)],
         <<>>)
BalanceBody(unit, tag, fmt, kinds) ==
    DataBody(<<Elem("energybalance", None, Opt("unit", unit),
                    <<Elem(IF tag = "month" THEN "year" ELSE "month", None, <<>>,
                           [i \in 1..Len(kinds) |-> BalanceElem(tag, fmt, kinds[i], i)])>>)>>)

BalanceInputs ==
    {Input("EnergyBalance", BalanceBody(Some(unit), shape[1], shape[2], k), k) :
        unit \in {"kWh", "Wh"},
        shape \in {<<"month", "%m/%Y">>, <<"day", "%d/%m/%Y">>},
        k \in SeqsUpTo(BalanceKinds, MaxEntries) \ {<<>>}}
    \cup {Input("EnergyBalance", BalanceBody(unit, "day", "%d/%m/%Y", <<>>), <<>>) :
            unit \in {None, Some("kWh"), Some("J")}}

\* Day overviews: both roots, with an hour and a fiveteen entry each.
PowerKinds == [ts : BOOLEAN, mean : BOOLEAN]
DayOverviewInputs ==
    {[Input("DayOverview",
            OverviewBody(root,
                YieldElem("day", Some(Date("%d/%m/%Y", 0)), absolute, absolute,
                    <<PowerElem("hour", IF k.ts THEN Some(Date("%H:%M", 1)) ELSE None,
                                IF k.mean THEN Some(Dec(5000)) ELSE None, None, None),
                      PowerElem("fiveteen", IF k.ts THEN Some(Date("%H:%M", 2)) ELSE None,
                                IF k.mean THEN Some(Dec(6000)) ELSE None,
                                Some(Dec(1000)), Some(Dec(9000)))>>)),
            <<k>>)
        EXCEPT !.quarter = quarter, !.include_all = include_all] :
        root \in {"overview-day-total", "overview-day-fifteen-total"},
        absolute \in {None, Some(Dec(12345))},
        k \in PowerKinds, quarter \in BOOLEAN, include_all \in BOOLEAN}

LastDataExactInputs ==
    {Input("LastDataExact",
           LastDataExactBody(
               YieldElem("day", Some(Date("%d/%m/%Y", 1)), d.absolute, d.difference, <<>>),
               YieldElem("hour", Some(Date("%H:%M", 2)), h.absolute, h.difference, <<>>)),
           <<>>) :
        d \in [absolute : {None, Some(Dec(12345))}, difference : {None, Some(Dec(2345))}],
        h \in [absolute : {None, Some(Dec(12345))}, difference : {None, Some(Dec(345))}]}

\* The strings handed to the unit conversions: no string, every decimal of
\* up to four decimals between -MaxDecimal / Scale and MaxDecimal / Scale,
\* and a string that spells no number.
ConversionInputs ==
    {Input(decoder, value, <<>>) :
        decoder \in {"kwh_to_wh", "converter:Wh"},
        value \in {None, Some([text |-> "abc"])}
                  \cup {Some(Dec(n)) : n \in -MaxDecimal .. MaxDecimal}}

DecoderInputs ==
    {Input(decoder, text, <<>>) : decoder \in {"Authentication", "PlantList"},
                                  text \in EnvelopeTexts}
    \cup {[Input("Authentication", text, <<>>) EXCEPT !.now = now] :
            text \in AuthenticationTexts, now \in 0..1}
    \cup YieldInputs \cup BalanceInputs \cup DayOverviewInputs \cup LastDataExactInputs

InitDecode ==
    /\ token = None
    /\ clock = 0
    /\ prepare_url_params = EmptyDict
    /\ DataRequest_params = EmptyDict
    /\ call = NoCall
    /\ \/ data \in {Some(i) : i \in DecoderInputs}
       \/ data \in {Some(i) : i \in ConversionInputs}
    /\ decoded = None
    /\ threads = NoThreads
    /\ mutex = NoMutex
    /\ sent = <<>>

\* The decoder named in data decodes its text, once.
Decode(decoder, result) ==
    /\ decoded = None
    /\ data[1].decoder = decoder
    /\ decoded' = Some(result)
    /\ UNCHANGED data

\* AuthenticationResponse(data)
DecodeAuthentication ==
    /\ Decode("Authentication", AuthenticationResponse_parse(data[1].text, data[1].now))
    /\ UNCHANGED <<token, clock, prepare_url_params, DataRequest_params, call, threading>>

\* PlantListResponse(data)
DecodePlantList ==
    /\ Decode("PlantList", PlantListResponse_parse(data[1].text))
    /\ UNCHANGED <<token, clock, prepare_url_params, DataRequest_params, call, threading>>

\* LastDataExactResponse(data)
DecodeLastDataExact ==
    /\ Decode("LastDataExact", LastDataExactResponse_parse(data[1].text))
    /\ UNCHANGED <<token, clock, prepare_url_params, DataRequest_params, call, threading>>

\* AllDataResponse(data) of a text with year entries
DecodeAllDataYear ==
    /\ Decode("AllData:year", AllDataResponse_parse(data[1].text))
    /\ UNCHANGED <<token, clock, prepare_url_params, DataRequest_params, call, threading>>

\* AllDataResponse(data) of a text with month entries
DecodeAllDataMonth ==
    /\ Decode("AllData:month", AllDataResponse_parse(data[1].text))
    /\ UNCHANGED <<token, clock, prepare_url_params, DataRequest_params, call, threading>>

\* DayOverviewResponse(data, quarter, include_all)
DecodeDayOverview ==
    /\ Decode("DayOverview",
              DayOverviewResponse(<<data[1].text, data[1].quarter, data[1].include_all>>))
    /\ UNCHANGED <<token, clock, prepare_url_params, DataRequest_params, call, threading>>

\* MonthOverviewResponse(data)
DecodeMonthOverview ==
    /\ Decode("MonthOverview", MonthOverviewResponse_parse(data[1].text))
    /\ UNCHANGED <<token, clock, prepare_url_params, DataRequest_params, call, threading>>

\* YearOverviewResponse(data)
DecodeYearOverview ==
    /\ Decode("YearOverview", YearOverviewResponse_parse(data[1].text))
    /\ UNCHANGED <<token, clock, prepare_url_params, DataRequest_params, call, threading>>

\* EnergyBalanceResponse(data)
DecodeEnergyBalance ==
    /\ Decode("EnergyBalance", EnergyBalanceResponse_parse(data[1].text))
    /\ UNCHANGED <<token, clock, prepare_url_params, DataRequest_params, call, threading>>

\* ResponseBase.kwh_to_wh(kwh), which kw_to_w and kwp_to_wp call
Convert_kwh_to_wh ==
    /\ Decode("kwh_to_wh", kwh_to_wh(data[1].text))
    /\ UNCHANGED <<token, clock, prepare_url_params, DataRequest_params, call, threading>>

\* The converter of an energy balance declared in Wh
Convert_wh ==
    /\ Decode("converter:Wh", converter("Wh", data[1].text))
    /\ UNCHANGED <<token, clock, prepare_url_params, DataRequest_params, call, threading>>

NextDecode ==
    \/ DecodeAuthentication
    \/ DecodePlantList
    \/ DecodeLastDataExact
    \/ DecodeAllDataYear
    \/ DecodeAllDataMonth
    \/ DecodeDayOverview
    \/ DecodeMonthOverview
    \/ DecodeYearOverview
    \/ DecodeEnergyBalance
    \/ Convert_kwh_to_wh
    \/ Convert_wh

SpecDecode == InitDecode /\ [][NextDecode]_vars
-----------------------------------------------------------------------------
(* Properties of the facade *)

DataOps == {"get_plants", "last_data_exact", "all_data", "day_overview",
            "month_overview", "year_overview"}

IsLogin(x) ==
    /\ Len(x.sent) = 1
    /\ x.sent[1].method = "GET"
    /\ x.sent[1].url.service = "authentication"
    /\ x.sent[1].token = None

IsLogoutOf(x, tok) ==
    /\ Len(x.sent) = 1
    /\ x.sent[1].method = "DELETE"
    /\ x.sent[1].url.service = "authentication"
    /\ x.sent[1].token = Some(tok)
    /\ x.sent[1].url.query # None
    /\ "signature" \in DOMAIN x.sent[1].url.query[1]
    /\ x.sent[1].url.query[1]["signature"].quoted.b64.key = tok.key[1]
    /\ x.sent[1].url.query[1]["signature"].quoted.b64.msg[4] = lower(tok.identifier)

\* C1: the token goes from none to a token only by a successful login inside
\* get_token, which stores what that login decoded, and from a token to none
\* only by a successful logout request; no step changes it otherwise, so a
\* failing exchange leaves it as it was and a held token is never modified.
C1_TokenChangesOnlyByLoginAndLogout ==
    [][token' # token =>
          \/ /\ token = None
             /\ call'.op \in DataOps
             /\ Len(call'.exchanges) >= 1
             /\ IsLogin(call'.exchanges[1])
             /\ call'.exchanges[1].response.status = 200
             /\ ~Raised(call'.exchanges[1].result)
             /\ token' = Some(call'.exchanges[1].result.val)
          \/ /\ token # None
             /\ token' = None
             /\ call'.op = "logout"
             /\ Len(call'.exchanges) = 1
             /\ IsLogoutOf(call'.exchanges[1], token[1])
             /\ call'.exchanges[1].response.status = 200
             /\ ~Raised(call'.exchanges[1].result)]_vars

\* C1 witness: a logout request that failed and left the held token in place.
C1_Witness ==
    /\ call.op = "logout"
    /\ call.before # None
    /\ Len(call.exchanges) = 1
    /\ Raised(call.result)
    /\ token = call.before

\* C2: a data call on a client holding a token makes exactly one round trip,
\* which is no authentication request; on a client holding none it first makes
\* one login request and sends the data request only after the login
\* succeeded; a failed login is the outcome of the call and nothing else is sent.
C2_OneRoundTripAfterLogin ==
    call.op \in DataOps =>
        IF call.before # None
        THEN /\ Len(call.exchanges) = 1
             /\ call.exchanges[1].sent[1].url.service # "authentication"
        ELSE /\ Len(call.exchanges) \in {1, 2}
             /\ IsLogin(call.exchanges[1])
             /\ Raised(call.exchanges[1].result) =>
                    /\ Len(call.exchanges) = 1
                    /\ call.result = call.exchanges[1].result
             /\ Len(call.exchanges) = 2 =>
                    /\ ~Raised(call.exchanges[1].result)
                    /\ call.exchanges[2].sent[1].url.service # "authentication"

\* A step of Client.logout.
LogoutStep ==
    /\ call'.op = "logout"
    /\ clock' = clock
    /\ <<token, prepare_url_params, DataRequest_params, call>>'
           # <<token, prepare_url_params, DataRequest_params, call>>

\* A step of a facade data method.
DataStep ==
    /\ call'.op \in DataOps
    /\ <<token, prepare_url_params, DataRequest_params, call>>'
           # <<token, prepare_url_params, DataRequest_params, call>>

\* C3: logout without a token sends nothing and changes nothing; logout with
\* a token sends exactly one DELETE authentication request signed with that
\* token and, when it succeeds, leaves the client without a token; a data call
\* on a client without a token starts with a login.
C3_Logout ==
    [][/\ LogoutStep /\ token = None =>
              /\ call'.exchanges = <<>>
              /\ ~Raised(call'.result)
              /\ UNCHANGED <<token, prepare_url_params, DataRequest_params>>
       /\ LogoutStep /\ token # None =>
              /\ Len(call'.exchanges) = 1
              /\ IsLogoutOf(call'.exchanges[1], token[1])
              /\ ~Raised(call'.result) => token' = None
       /\ DataStep /\ token = None =>
              /\ Len(call'.exchanges) >= 1
              /\ IsLogin(call'.exchanges[1])]_vars

\* C4: every exchange of perform puts exactly one request on the connection;
\* the body is read and decoded exactly when the status is 200, and any other
\* status, 2xx included, raises an error carrying the status and the reason.
C4_PerformOnly200 ==
    \A i \in 1..Len(call.exchanges) :
        LET x == call.exchanges[i] IN
        /\ Len(x.sent) = 1
        /\ x.read <=> x.response.status = 200
        /\ x.response.status # 200 =>
               /\ x.result.exc = "RuntimeError"
               /\ x.result.msg[3] = x.response.status
               /\ x.result.msg[4] = x.response.reason
        /\ x.response.status = 200 => x.result.exc # "RuntimeError"

\* C4 witness: an exchange answered with another 2xx status was refused.
C4_Witness ==
    \E i \in 1..Len(call.exchanges) :
        /\ call.exchanges[i].response.status \in {201, 204}
        /\ call.exchanges[i].result.exc = "RuntimeError"
        /\ ~call.exchanges[i].read

\* C7: every token Client.get_token stored carries identifier, key and
\* server_offset.
C7_StoredTokenHasKey ==
    token # None => token[1].key # None

SignatureParams == {"timestamp", "signature-method", "signature-version", "signature"}

\* C8: a request's URL carries timestamp, signature-method=auth,
\* signature-version=100 and signature exactly when the request was built with
\* a token, the login request being the only one built without; the timestamp
\* parameter is the one the signature was computed over, and the token the
\* request was built with is the client's token, unmodified.
C8_SignedIffToken ==
    \A i \in 1..Len(call.exchanges) :
        LET r == call.exchanges[i].sent[1]
            q == IF r.url.query = None THEN EmptyDict ELSE r.url.query[1]
        IN /\ r.token = None <=> IsLogin(call.exchanges[i])
           /\ r.token = None => SignatureParams \cap DOMAIN q = {}
           /\ r.token # None =>
                  /\ SignatureParams \subseteq DOMAIN q
                  /\ q["signature-method"].quoted = "auth"
                  /\ q["signature-version"].quoted = "100"
                  /\ q["timestamp"].quoted = q["signature"].quoted.b64.msg[3]
                  /\ q["signature"].quoted.b64.key = r.token[1].key[1]
                  /\ r.token = (IF call.op = "logout" THEN call.before ELSE token)

\* C8 witness: a call that sent an unsigned login and then a signed request.
C8_Witness ==
    /\ Len(call.exchanges) = 2
    /\ call.exchanges[1].sent[1].token = None
    /\ call.exchanges[2].sent[1].token # None
    /\ "signature" \in DOMAIN call.exchanges[2].sent[1].url.query[1]

\* C10: day_overview requests overview-day-total when quarter is false and
\* overview-day-fifteen-total when it is true, and on a well-formed HTTP 200
\* response returns the decoded day overview.
C10_DayOverview ==
    (/\ call.op = "day_overview"
     /\ token # None
     /\ token[1].key # None) =>
        /\ call.exchanges # <<>>
        /\ LET x == call.exchanges[Len(call.exchanges)] IN
           /\ x.sent[1].url.service = "data"
           /\ x.sent[1].url.segments[2].quoted =
                  (IF call.args.quarter THEN "overview-day-fifteen-total"
                   ELSE "overview-day-total")
           /\ x.response = Http(200, "OK", GoodBody("day_overview")) =>
                  /\ ~Raised(call.result)
                  /\ call.result.val.cls = "DayOverviewResponse"


-----------------------------------------------------------------------------
(* Properties of the decoders *)

EnvelopeDecoders == {"Authentication", "PlantList"}

\* A text with the right root tag has been handed to an envelope decoder.
EnvelopeDecoded ==
    /\ decoded # None
    /\ data[1].decoder \in EnvelopeDecoders
    /\ data[1].text # None
    /\ data[1].text[1].tag = "sma.sunnyportal.services"

\* The service children of the decoded text, and the error children of the
\* first of them.
ServicesOf(text) == SelectSeq(text[1].kids, LAMBDA k : k.tag = "service")
ErrorsOf(service) == SelectSeq(service.kids, LAMBDA k : k.tag = "error")

\* The text's first service element has an error child.
ErrorAnswered ==
    /\ EnvelopeDecoded
    /\ ServicesOf(data[1].text) # <<>>
    /\ ErrorsOf(ServicesOf(data[1].text)[1]) # <<>>

TheError == ErrorsOf(ServicesOf(data[1].text)[1])[1]

MessageOf(error) ==
    IF findtext(error, "message") \in {None, Some("")} THEN "Invalid response error"
    ELSE findtext(error, "message")[1]

\* C5 as the specification states it: an error child makes decoding fail with
\* ResponseError whose message is the text of the message child, or "Invalid
\* response error" when that is absent or empty, and whose code is the text of
\* the code child, or "unknown-error" when that child is absent.
C5_CodeDefaultsToUnknownError ==
    ErrorAnswered =>
        /\ decoded[1].exc = "ResponseError"
        /\ decoded[1].msg = MessageOf(TheError)
        /\ decoded[1].code = (IF findtext(TheError, "code") = None
                              THEN Some("unknown-error")
                              ELSE findtext(TheError, "code"))

\* C5 amended: an error child makes decoding fail with ResponseError whose
\* message is the text of the message child, or "Invalid response error" when
\* that is absent or empty, and whose code is the text of the code child, the
\* empty text for an empty child, and None (no code at all) when it is absent.
C5_CodeIsTextOrNone ==
    ErrorAnswered =>
        /\ decoded[1].exc = "ResponseError"
        /\ decoded[1].msg = MessageOf(TheError)
        /\ decoded[1].code = findtext(TheError, "code")

\* C5 witness: an error child without code and without message was decoded
\* into a ResponseError with the default message and no code.
C5_Witness ==
    /\ ErrorAnswered
    /\ TheError.kids = <<>>
    /\ decoded[1].exc = "ResponseError"
    /\ decoded[1].msg = "Invalid response error"
    /\ decoded[1].code = None

\* The service a decoder's request is made to.
ExpectedService(decoder) ==
    IF decoder = "Authentication" THEN "authentication" ELSE "plantlist"

\* What the decoder named makes of a text.
DecodeText(decoder, text, now) ==
    IF decoder = "Authentication" THEN AuthenticationResponse_parse(text, now)
    ELSE PlantListResponse_parse(text)

ListDecoders == {"AllData:year", "AllData:month", "MonthOverview", "YearOverview",
                 "EnergyBalance"}

\* A text with entries has been handed to a list decoder.
ListDecoded ==
    /\ decoded # None
    /\ data[1].decoder \in ListDecoders
    /\ data[1].entries # <<>>

\* The entry described by kind has every mandatory numeric field.
EntryComplete(decoder, kind) ==
    IF decoder = "EnergyBalance" THEN kind.missing = ""
    ELSE kind.absolute /\ kind.difference

\* The positions of the complete entries, in document order.
CompleteEntries(decoder, kinds) ==
    SelectSeq([i \in 1..Len(kinds) |-> i], LAMBDA i : EntryComplete(decoder, kinds[i]))

\* No entry lacks a timestamp the decoder reads: the energy balance decoder
\* reads every entry's, the yield decoders the complete entries'.
TimestampsGiven(decoder, kinds) ==
    \A i \in 1..Len(kinds) :
        (decoder = "EnergyBalance" \/ EntryComplete(decoder, kinds[i])) => kinds[i].ts

\* The record has every mandatory numeric field.
RecordComplete(decoder, rec) ==
    IF decoder = "EnergyBalance"
    THEN /\ rec.consumption.external # None
         /\ rec.consumption.internal # None
         /\ rec.consumption.direct # None
         /\ rec.generation.total # None
         /\ rec.generation.self_consumption # None
         /\ rec.generation.feed_in # None
    ELSE rec.absolute # None /\ rec.difference # None

-----------------------------------------------------------------------------
(* Unit conversion *)

\* A decimal string has been handed to the conversion named.
Converted(decoder) ==
    /\ decoded # None
    /\ data[1].decoder = decoder
    /\ data[1].text # None
    /\ "dec" \in DOMAIN data[1].text[1]

\* The integer part of n / d, cut toward zero, in exact arithmetic.
Truncated(n, d) == IF n >= 0 THEN n \div d ELSE -((-n) \div d)

\* The magnitude of an integer.
Magnitude(n) == IF n >= 0 THEN n ELSE -n

\* C11 as stated: kwh_to_wh of a decimal string is the kilo-unit value
\* scaled by 1000 and truncated toward zero, kwh_to_wh of no value is no
\* value, and the converter of an energy balance in Wh truncates without
\* scaling.
C11_ScaledAndTruncated ==
    /\ Converted("kwh_to_wh") =>
           decoded[1] = Ok(Some(Truncated(data[1].text[1].dec * 1000, Scale)))
    /\ Converted("converter:Wh") =>
           decoded[1] = Ok(Some(Truncated(data[1].text[1].dec, Scale)))
    /\ (decoded # None /\ data[1].decoder \in {"kwh_to_wh", "converter:Wh"}
           /\ data[1].text = None) => decoded[1] = Ok(None)

\* C11, amended: kwh_to_wh of a decimal string is int(float(x) * 1000) in
\* double arithmetic.  It is never rounded up ("1.2345" gives 1234): it is the
\* kilo-unit value scaled by 1000 and truncated toward zero, except that
\* where x * 1000 is a whole number the double product can fall just below
\* it, and the result is then one less in magnitude ("1.001" gives 1000).
\* kwh_to_wh of no value is no value; the kW readings of a day overview go
\* through the same conversion (0.5 kW gives 500 W); the converter of an
\* energy balance in Wh truncates toward zero without scaling.
C11_DoubleProductTruncated ==
    /\ Converted("kwh_to_wh") =>
           /\ ~Raised(decoded[1])
           /\ decoded[1].val # None
           /\ \/ decoded[1].val[1] = Truncated(data[1].text[1].dec * 1000, Scale)
              \/ /\ (data[1].text[1].dec * 1000) % Scale = 0
                 /\ data[1].text[1].dec # 0
                 /\ decoded[1].val[1] * data[1].text[1].dec > 0
                 /\ Magnitude(decoded[1].val[1])
                        = Magnitude(Truncated(data[1].text[1].dec * 1000, Scale)) - 1
           /\ data[1].text[1].dec = 12345 => decoded[1].val[1] = 1234
    /\ Converted("converter:Wh") =>
           decoded[1] = Ok(Some(Truncated(data[1].text[1].dec, Scale)))
    /\ (decoded # None /\ data[1].decoder \in {"kwh_to_wh", "converter:Wh"}
           /\ data[1].text = None) => decoded[1] = Ok(None)
    /\ (decoded # None /\ data[1].decoder = "DayOverview" /\ ~Raised(decoded[1])) =>
           \A j \in 1..Len(decoded[1].val.power_measurements) :
               decoded[1].val.power_measurements[j].power \in {None, Some(500), Some(600)}

\* C11 witness: kwh_to_wh("1.0010") has returned 1000.
C11_Witness ==
    /\ Converted("kwh_to_wh")
    /\ data[1].text[1].dec = 10010
    /\ decoded[1] = Ok(Some(1000))

-----------------------------------------------------------------------------
(* Order of the envelope checks *)

\* A text that is XML has been handed to an envelope decoder.
AnyRootDecoded ==
    /\ decoded # None
    /\ data[1].decoder \in EnvelopeDecoders
    /\ data[1].text # None

\* The failure of the first envelope check the text does not pass, in the
\* order root tag, service child, error child, creation-date, method and name
\* attributes, payload element; <<>> when it passes them all.
FirstEnvelopeFailure(text) ==
    IF text[1].tag # "sma.sunnyportal.services"
    THEN <<"MalformedResponseError", "Unknown root tag">>
    ELSE IF ServicesOf(text) = <<>>
    THEN <<"MalformedResponseError", <<"Missing tag", "service">>>>
    ELSE IF ErrorsOf(ServicesOf(text)[1]) # <<>>
    THEN <<"ResponseError", MessageOf(ErrorsOf(ServicesOf(text)[1])[1])>>
    ELSE IF "creation-date" \notin DOMAIN ServicesOf(text)[1].attrs
    THEN <<"MalformedResponseError", <<"Missing attribute", "creation-date", "service">>>>
    ELSE IF "method" \notin DOMAIN ServicesOf(text)[1].attrs
    THEN <<"MalformedResponseError", <<"Missing attribute", "method", "service">>>>
    ELSE IF "name" \notin DOMAIN ServicesOf(text)[1].attrs
    THEN <<"MalformedResponseError", <<"Missing attribute", "name", "service">>>>
    ELSE IF \A k \in 1..Len(ServicesOf(text)[1].kids) :
                ServicesOf(text)[1].kids[k].tag # ServicesOf(text)[1].attrs["name"]
    THEN <<"MalformedResponseError", <<"Missing tag", ServicesOf(text)[1].attrs["name"]>>>>
    ELSE <<>>

\* Some service child of the text has an error child.
EmbedsError(text) ==
    \E s \in 1..Len(ServicesOf(text)) : ErrorsOf(ServicesOf(text)[s]) # <<>>

\* C12: the envelope checks are applied in the order root tag, service child,
\* error child, creation-date and method attributes, payload element, and
\* decoding fails with the failure of the first check that fails, whatever
\* the payload holds: a wrong root tag gives MalformedResponseError even when
\* an error element is embedded, an error element gives ResponseError even
\* when creation-date, method or the payload element is missing, and a
\* failure that stems from the payload (a failed authentication) is met only
\* when every envelope check has passed.
C12_FirstFailingCheckDecides ==
    AnyRootDecoded =>
        /\ FirstEnvelopeFailure(data[1].text) # <<>> =>
               <<decoded[1].exc, decoded[1].msg>> = FirstEnvelopeFailure(data[1].text)
        /\ (data[1].text[1].tag # "sma.sunnyportal.services" /\ EmbedsError(data[1].text)) =>
               decoded[1].exc = "MalformedResponseError"
        /\ (data[1].text[1].tag = "sma.sunnyportal.services"
               /\ ServicesOf(data[1].text) # <<>>
               /\ ErrorsOf(ServicesOf(data[1].text)[1]) # <<>>) =>
               decoded[1].exc = "ResponseError"
        /\ (Raised(decoded[1]) /\ decoded[1].msg = "Authentication failed") =>
               FirstEnvelopeFailure(data[1].text) = <<>>

\* C12 witness: a response whose service element has an error child and no
\* creation-date, method or name attribute and no payload was answered with
\* ResponseError.
C12_Witness ==
    /\ AnyRootDecoded
    /\ data[1].text[1].tag = "sma.sunnyportal.services"
    /\ ServicesOf(data[1].text) # <<>>
    /\ ErrorsOf(ServicesOf(data[1].text)[1]) # <<>>
    /\ DOMAIN ServicesOf(data[1].text)[1].attrs = {}
    /\ Len(ServicesOf(data[1].text)[1].kids) = 1
    /\ decoded[1].exc = "ResponseError"
    /\ decoded[1].msg = "Invalid session"

-----------------------------------------------------------------------------
(* LastDataExact with a day of no account *)

\* The day and hour elements of a LastDataExact text.
DayAndHourOf(text) == text[1].kids[1].kids[1].kids[1].kids[1].kids

\* The element carries both absolute and difference.
HasBoth(element) == {"absolute", "difference"} \subseteq DOMAIN element.attrs

\* A LastDataExact text whose day lacks absolute or difference while its
\* hour carries both has been decoded.
HourWithoutDayDecoded ==
    /\ decoded # None
    /\ data[1].decoder = "LastDataExact"
    /\ ~HasBoth(DayAndHourOf(data[1].text)[1])
    /\ HasBoth(DayAndHourOf(data[1].text)[2])

\* C14: when the day element lacks absolute or difference while the hour
\* element carries both, no hour Yield is emitted and decoding fails with
\* MalformedResponseError, and with no other kind of failure.
C14_MissingDayIsMalformed ==
    HourWithoutDayDecoded =>
        /\ Raised(decoded[1])
        /\ decoded[1].exc = "MalformedResponseError"

-----------------------------------------------------------------------------
(* The request constructors on their own: requests are constructed one after
   another, with any token, in the one interpreter whose default dict objects
   they share *)

\* The tokens a caller may hold: login answers, and answers without a key.
Tokens ==
    {[cls |-> "AuthenticationResponse", creation_date |-> CreationDate(0),
      method |-> "GET", server_offset |-> 0, identifier |-> identifier,
      key |-> key] :
        identifier \in Identifiers, key \in {None} \cup {Some(k) : k \in Keys}}

\* A constructor has run: found is the default dict object it fell back on,
\* as it found it (None when it made a dict of its own), b what it left.
Construct(cls, tok, args, found, b) ==
    /\ call' = [op |-> cls, args |-> args, before |-> tok, now |-> clock, found |-> found,
                result |-> IF b.exc # "" THEN Raise(b.exc, "request construction", None)
                           ELSE Ok(b.req)]
    /\ prepare_url_params' = b.pu
    /\ DataRequest_params' = b.dr

\* AuthenticationRequest(username, password)
NewAuthenticationRequest ==
    /\ Construct("AuthenticationRequest", None, NoArgs, None,
                 AuthenticationRequest(username, password, prepare_url_params,
                                       DataRequest_params, clock))
    /\ UNCHANGED <<token, clock, data, decoded, threading>>

\* LogoutRequest(token)
NewLogoutRequest ==
    /\ \E tok \in Tokens :
          Construct("LogoutRequest", Some(tok), NoArgs, Some(prepare_url_params),
                    LogoutRequest(tok, prepare_url_params, DataRequest_params, clock))
    /\ UNCHANGED <<token, clock, data, decoded, threading>>

\* PlantListRequest(token)
NewPlantListRequest ==
    /\ \E tok \in Tokens :
          Construct("PlantListRequest", Some(tok), NoArgs, Some(prepare_url_params),
                    PlantListRequest(tok, prepare_url_params, DataRequest_params, clock))
    /\ UNCHANGED <<token, clock, data, decoded, threading>>

\* PlantProfileRequest(token, oid)
NewPlantProfileRequest ==
    /\ \E tok \in Tokens, oid \in Oids :
          Construct("PlantProfileRequest", Some(tok), [NoArgs EXCEPT !.oid = oid], None,
                    PlantProfileRequest(tok, oid, prepare_url_params, DataRequest_params,
                                        clock))
    /\ UNCHANGED <<token, clock, data, decoded, threading>>

\* LastDataExactRequest(token, oid, date)
NewLastDataExactRequest ==
    /\ \E tok \in Tokens, oid \in Oids, date \in {1} :
          Construct("LastDataExactRequest", Some(tok),
                    [NoArgs EXCEPT !.oid = oid, !.date = date], None,
                    LastDataExactRequest(tok, oid, date, prepare_url_params,
                                         DataRequest_params, clock))
    /\ UNCHANGED <<token, clock, data, decoded, threading>>

\* AllDataRequest(token, oid, interval)
NewAllDataRequest ==
    /\ \E tok \in Tokens, oid \in Oids, interval \in {"year", "month"} :
          Construct("AllDataRequest", Some(tok),
                    [NoArgs EXCEPT !.oid = oid, !.interval = interval], None,
                    AllDataRequest(tok, oid, interval, prepare_url_params,
                                   DataRequest_params, clock))
    /\ UNCHANGED <<token, clock, data, decoded, threading>>

\* DayOverviewRequest(token, oid, date)
NewDayOverviewRequest ==
    /\ \E tok \in Tokens, oid \in Oids, date \in {1} :
          Construct("DayOverviewRequest", Some(tok),
                    [NoArgs EXCEPT !.oid = oid, !.date = date], Some(DataRequest_params),
                    DayOverviewRequest(<<tok, oid, date>>, prepare_url_params,
                                       DataRequest_params, clock))
    /\ UNCHANGED <<token, clock, data, decoded, threading>>

\* MonthOverviewRequest(token, oid, date)
NewMonthOverviewRequest ==
    /\ \E tok \in Tokens, oid \in Oids, date \in {1} :
          Construct("MonthOverviewRequest", Some(tok),
                    [NoArgs EXCEPT !.oid = oid, !.date = date], Some(DataRequest_params),
                    MonthOverviewRequest(tok, oid, date, prepare_url_params,
                                         DataRequest_params, clock))
    /\ UNCHANGED <<token, clock, data, decoded, threading>>

\* YearOverviewRequest(token, oid, date)
NewYearOverviewRequest ==
    /\ \E tok \in Tokens, oid \in Oids, date \in {1} :
          Construct("YearOverviewRequest", Some(tok),
                    [NoArgs EXCEPT !.oid = oid, !.date = date], Some(DataRequest_params),
                    YearOverviewRequest(tok, oid, date, prepare_url_params,
                                        DataRequest_params, clock))
    /\ UNCHANGED <<token, clock, data, decoded, threading>>

NextConstruct ==
    \/ NewAuthenticationRequest
    \/ NewLogoutRequest
    \/ NewPlantListRequest
    \/ NewPlantProfileRequest
    \/ NewLastDataExactRequest
    \/ NewAllDataRequest
    \/ NewDayOverviewRequest
    \/ NewMonthOverviewRequest
    \/ NewYearOverviewRequest
    \/ Tick

SpecConstruct == Init /\ [][NextConstruct]_vars

-----------------------------------------------------------------------------
(* Properties of the request constructors *)

\* A request has been constructed.
Constructed == call.op # "" /\ ~Raised(call.result)

\* C13: each request construction uses a fresh query-parameter container:
\* a constructor that falls back on a default container (its own or
\* prepare_url's) finds it empty, holding nothing an earlier construction
\* wrote.
C13_FreshContainers ==
    call.op # "" => call.found \in {None, Some(EmptyDict)}

\* The construction the call record names, made with default dict objects
\* nothing was ever written into.
ConstructedAfresh(c) ==
    CASE c.op = "AuthenticationRequest" ->
             AuthenticationRequest(username, password, EmptyDict, EmptyDict, c.now)
      [] c.op = "LogoutRequest" -> LogoutRequest(c.before[1], EmptyDict, EmptyDict, c.now)
      [] c.op = "PlantListRequest" ->
             PlantListRequest(c.before[1], EmptyDict, EmptyDict, c.now)
      [] c.op = "PlantProfileRequest" ->
             PlantProfileRequest(c.before[1], c.args.oid, EmptyDict, EmptyDict, c.now)
      [] c.op = "LastDataExactRequest" ->
             LastDataExactRequest(c.before[1], c.args.oid, c.args.date, EmptyDict,
                                  EmptyDict, c.now)
      [] c.op = "AllDataRequest" ->
             AllDataRequest(c.before[1], c.args.oid, c.args.interval, EmptyDict,
                            EmptyDict, c.now)
      [] c.op = "DayOverviewRequest" ->
             DayOverviewRequest(<<c.before[1], c.args.oid, c.args.date>>, EmptyDict,
                                EmptyDict, c.now)
      [] c.op = "MonthOverviewRequest" ->
             MonthOverviewRequest(c.before[1], c.args.oid, c.args.date, EmptyDict,
                                  EmptyDict, c.now)
      [] c.op = "YearOverviewRequest" ->
             YearOverviewRequest(c.before[1], c.args.oid, c.args.date, EmptyDict,
                                 EmptyDict, c.now)

\* The parameter names a request of the class puts in its query string.
OwnParameters(cls) ==
    (IF cls = "AuthenticationRequest" THEN {"password"}
     ELSE {"timestamp", "signature-method", "signature-version", "signature"})
    \cup (IF cls \in {"AuthenticationRequest", "LogoutRequest", "PlantListRequest"} THEN {}
          ELSE {"culture", "identifier"})
    \cup (CASE cls = "PlantProfileRequest" -> {"view", "plant-image-size"}
            [] cls = "LastDataExactRequest" -> {"unit", "view"}
            [] cls = "AllDataRequest" -> {"period", "interval", "unit"}
            [] OTHER -> {})

\* The query string of the request constructed.
QueryOf(c) == c.result.val.url[1].query[1]

\* C16: whatever was constructed before, the query string of a request holds
\* the parameters of its own class and nothing else, its identifier is its own
\* token's, its timestamp its own, and its whole URL is the one the same
\* construction gives in an interpreter that constructed nothing before.
C16_NoStaleParameters ==
    Constructed =>
        /\ DOMAIN QueryOf(call) = OwnParameters(call.op)
        /\ "identifier" \in DOMAIN QueryOf(call) =>
               QueryOf(call)["identifier"] = quote(call.before[1].identifier)
        /\ "timestamp" \in DOMAIN QueryOf(call) =>
               QueryOf(call)["timestamp"]
                   = quote(get_timestamp(call.before[1].server_offset, call.now))
        /\ call.result.val.url = ConstructedAfresh(call).req.url

\* C16 witness: a month overview request was constructed with the token Id-2
\* while DataRequest's default dict object held the identifier abc and the
\* signature of an earlier request; its URL carries Id-2.
C16_Witness ==
    /\ Constructed
    /\ call.op = "MonthOverviewRequest"
    /\ call.found # None
    /\ "identifier" \in DOMAIN call.found[1]
    /\ call.found[1]["identifier"] = "abc"
    /\ "signature" \in DOMAIN call.found[1]
    /\ call.before[1].identifier = "Id-2"
    /\ QueryOf(call)["identifier"] = quote("Id-2")

-----------------------------------------------------------------------------
(* Client.get_token under threads: each thread makes one facade call on the
   one client, statement by statement; the caller either guards the call of
   get_token with a mutex or does not *)

Threads == 1..MaxThreads

\* What the portal may answer to a thread's login request.
ThreadLoginResponses ==
    {Http(200, "OK", AuthBody("GET", "OK", Some(i), Some(k), c)) :
        i \in Identifiers, k \in Keys, c \in CreationSeconds}
    \cup {Http(500, "Internal Server Error", None)}

InitThreads ==
    /\ token = None
    /\ clock = 0
    /\ prepare_url_params = EmptyDict
    /\ DataRequest_params = EmptyDict
    /\ call = NoCall
    /\ data = None
    /\ decoded = None
    /\ mutex \in {NoMutex, [NoMutex EXCEPT !.guarded = TRUE]}
    /\ threads = [t \in Threads |-> [pc |-> IF mutex.guarded THEN "idle" ELSE "get_token",
                                     local |-> None]]
    /\ sent = <<>>

\* The thread moves on to pc with the local value.
Goto(t, pc, local) == threads' = [threads EXCEPT ![t] = [pc |-> pc, local |-> local]]

\* "if self.token is None" had the test always come out true.
token_is_None_always(tok) == TRUE

\* "if self.token is None"
token_is_None(tok) == tok = None

\* The caller's guard: the thread takes the mutex before it calls get_token.
Acquire(t) ==
    /\ threads[t].pc = "idle"
    /\ mutex.guarded
    /\ mutex.holder = None
    /\ mutex' = [mutex EXCEPT !.holder = Some(t)]
    /\ Goto(t, "get_token", None)
    /\ UNCHANGED <<token, clock, prepare_url_params, DataRequest_params, call, data, decoded,
                   sent>>

\* get_token, "if self.token is None": the thread reads the token field.
get_token_test(t) ==
    /\ threads[t].pc = "get_token"
    /\ Goto(t, IF token_is_None(token) THEN "do_request" ELSE "return", None)
    /\ UNCHANGED <<token, clock, prepare_url_params, DataRequest_params, call, data, decoded,
                   mutex, sent>>

\* get_token, "req = AuthenticationRequest(...)" and "self.do_request(req)":
\* the thread sends the login request and decodes the answer; an exception
\* leaves get_token and the facade call.
get_token_do_request(t) ==
    /\ threads[t].pc = "do_request"
    /\ \E response \in ThreadLoginResponses :
          LET x == Client_do_request(
                       AuthenticationRequest(username, password, prepare_url_params,
                                             DataRequest_params, clock).req,
                       response, clock)
          IN /\ sent' = Append(sent, [thread |-> t, result |-> x.result])
             /\ IF Raised(x.result) THEN Goto(t, "raised", None)
                ELSE Goto(t, "store", Some(x.result.val))
    /\ UNCHANGED <<token, clock, prepare_url_params, DataRequest_params, call, data, decoded,
                   mutex>>

\* get_token, "self.token = ...": the thread stores what do_request returned.
get_token_store(t) ==
    /\ threads[t].pc = "store"
    /\ token' = threads[t].local
    /\ Goto(t, "return", None)
    /\ UNCHANGED <<clock, prepare_url_params, DataRequest_params, call, data, decoded, mutex,
                   sent>>

\* get_token, "return self.token": the thread reads the token field again.
get_token_return(t) ==
    /\ threads[t].pc = "return"
    /\ Goto(t, "returned", token)
    /\ UNCHANGED <<token, clock, prepare_url_params, DataRequest_params, call, data, decoded,
                   mutex, sent>>

\* The caller's guard: the thread gives the mutex back when get_token has
\* returned or raised.
Release(t) ==
    /\ threads[t].pc \in {"returned", "raised"}
    /\ mutex.holder = Some(t)
    /\ mutex' = [mutex EXCEPT !.holder = None]
    /\ Goto(t, "done", threads[t].local)
    /\ UNCHANGED <<token, clock, prepare_url_params, DataRequest_params, call, data, decoded,
                   sent>>

NextThreads ==
    \/ \E t \in Threads : Acquire(t)
    \/ \E t \in Threads : get_token_test(t)
    \/ \E t \in Threads : get_token_do_request(t)
    \/ \E t \in Threads : get_token_store(t)
    \/ \E t \in Threads : get_token_return(t)
    \/ \E t \in Threads : Release(t)

SpecThreads == InitThreads /\ [][NextThreads]_vars

-----------------------------------------------------------------------------
(* Properties of get_token under threads *)

\* The authentication requests that were answered with a token.
Logins == {i \in 1..Len(sent) : ~Raised(sent[i].result)}

\* The threads between get_token's test and its assignment.
Creating == {t \in Threads : threads[t].pc \in {"do_request", "store"}}

\* C15: when the caller serialises get_token with a mutex, at most one thread
\* at a time is between the test for a held token and the storing of a new
\* one, no authentication request is sent once a token is held, and at most
\* one authentication request per login is answered with a token.  (Without
\* the mutex the test and the assignment interleave: see the witness.)
C15_MutexSerialisesLogin ==
    mutex.guarded =>
        /\ Cardinality(Creating) <= 1
        /\ Cardinality(Logins) <= 1
        /\ \A t \in Creating : token = None

\* C15 witness: without a mutex two threads both saw that no token was held,
\* each sent an authentication request, and the token answered second has
\* overwritten the one answered first, which the first thread had stored.
C15_Witness ==
    /\ mutex = NoMutex
    /\ Len(sent) = 2
    /\ sent[1].thread # sent[2].thread
    /\ Logins = {1, 2}
    /\ sent[1].result.val # sent[2].result.val
    /\ token = Some(sent[2].result.val)
    /\ threads[sent[1].thread].pc = "returned"
    /\ threads[sent[1].thread].local = Some(sent[1].result.val)
====
